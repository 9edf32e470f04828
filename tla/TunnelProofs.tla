---------------------------- MODULE TunnelProofs ----------------------------
(***************************************************************************)
(* Proofs about Tunnel for every value of its constants.                   *)
(***************************************************************************)
EXTENDS Tunnel, SequenceTheorems, TLAPS

-----------------------------------------------------------------------------
(* Sequences of units *)

LEMMA Associative ==
    \A a, b, c \in Seq(Units) : (a \o b) \o c = a \o (b \o c)
<1> TAKE a, b, c \in Seq(Units)
<1> QED BY ConcatAssociative

LEMMA Closed == \A a, b \in Seq(Units) : a \o b \in Seq(Units)
BY ConcatProperties

LEMMA NothingAdded ==
    /\ <<>> \in Seq(Units)
    /\ \A a \in Seq(Units) : a \o <<>> = a /\ <<>> \o a = a
BY ConcatEmptySeq, EmptySeq

(* A sequence cut in two is the concatenation of its halves. *)
LEMMA Split ==
    ASSUME NEW s \in Seq(Units), NEW n \in 0..Len(s)
    PROVE  /\ SubSeq(s, 1, n) \in Seq(Units) /\ Len(SubSeq(s, 1, n)) = n
           /\ SubSeq(s, n + 1, Len(s)) \in Seq(Units)
           /\ Len(SubSeq(s, n + 1, Len(s))) = Len(s) - n
           /\ SubSeq(s, 1, n) \o SubSeq(s, n + 1, Len(s)) = s
<1> DEFINE a == SubSeq(s, 1, n)
           b == SubSeq(s, n + 1, Len(s))
<1>1. Len(s) \in Nat /\ n \in Nat /\ n <= Len(s) /\ \A i \in 1..Len(s) : s[i] \in Units
    BY LenProperties, ElementOfSeq
<1>2. a \in Seq(Units) /\ Len(a) = n /\ \A i \in 1..n : a[i] = s[i]
    BY <1>1, SubSeqProperties
<1>3. /\ b \in Seq(Units) /\ Len(b) = Len(s) - n
      /\ \A i \in 1..(Len(s) - n) : b[i] = s[n + i]
    BY <1>1, SubSeqProperties
<1> HIDE DEF a, b
<1>4. /\ a \o b \in Seq(Units)
      /\ Len(a \o b) = Len(s)
      /\ \A i \in 1..Len(s) : (a \o b)[i] = IF i <= n THEN a[i] ELSE b[i - n]
    <2>1. Len(a) + Len(b) = Len(s)
        BY <1>1, <1>2, <1>3
    <2>2. /\ a \o b \in Seq(Units)
          /\ Len(a \o b) = Len(a) + Len(b)
          /\ \A i \in 1..(Len(a) + Len(b)) : (a \o b)[i] =
                IF i <= Len(a) THEN a[i] ELSE b[i - Len(a)]
        BY <1>2, <1>3, ConcatProperties
    <2> QED BY <2>1, <2>2, <1>2
<1>5. \A i \in 1..Len(s) : (a \o b)[i] = s[i]
    BY <1>1, <1>2, <1>3, <1>4
<1>6. a \o b = s
    BY <1>1, <1>4, <1>5, SeqEqual
<1> QED BY <1>2, <1>3, <1>6 DEF a, b

LEMMA NoneIsEmpty ==
    ASSUME NEW s \in Seq(Units)
    PROVE  Len(s) \in Nat /\ (s = <<>> <=> Len(s) = 0)
BY LenProperties, EmptySeq

(* The first unit moves from what is on its way to what has arrived. *)
LEMMA MoveHead ==
    ASSUME NEW a \in Seq(Units), NEW b \in Seq(Units), b # <<>>
    PROVE  /\ Head(b) \in Units /\ Tail(b) \in Seq(Units)
           /\ Len(Tail(b)) = Len(b) - 1
           /\ Append(a, Head(b)) \in Seq(Units)
           /\ Append(a, Head(b)) \o Tail(b) = a \o b
<1>1. /\ Head(b) \in Units /\ Tail(b) \in Seq(Units) /\ Len(Tail(b)) = Len(b) - 1
      /\ Head(b) = b[1]
      /\ \A i \in 1..Len(Tail(b)) : Tail(b)[i] = b[i + 1]
    BY HeadTailProperties
<1>2. Len(a) \in Nat /\ Len(b) \in Nat /\ Len(b) >= 1
    BY NoneIsEmpty
<1> DEFINE c == Append(a, Head(b))
<1>3. /\ c \in Seq(Units) /\ Len(c) = Len(a) + 1
      /\ \A i \in 1..Len(a) : c[i] = a[i]
      /\ c[Len(a) + 1] = b[1]
    BY <1>1, AppendProperties
<1>4. /\ c \o Tail(b) \in Seq(Units)
      /\ Len(c \o Tail(b)) = Len(a) + Len(b)
      /\ \A i \in 1..(Len(a) + Len(b)) : (c \o Tail(b))[i] =
            IF i <= Len(a) + 1 THEN c[i] ELSE Tail(b)[i - (Len(a) + 1)]
    BY <1>1, <1>2, <1>3, ConcatProperties
<1>5. /\ a \o b \in Seq(Units)
      /\ Len(a \o b) = Len(a) + Len(b)
      /\ \A i \in 1..(Len(a) + Len(b)) : (a \o b)[i] =
            IF i <= Len(a) THEN a[i] ELSE b[i - Len(a)]
    BY ConcatProperties
<1>6. ASSUME NEW i \in 1..(Len(a) + Len(b))
      PROVE  (c \o Tail(b))[i] = (a \o b)[i]
    <2>1. CASE i <= Len(a)
        BY <2>1, <1>2, <1>3, <1>4, <1>5
    <2>2. CASE i = Len(a) + 1
        <3>1. (c \o Tail(b))[i] = b[1]
            BY <2>2, <1>2, <1>3, <1>4
        <3>2. (a \o b)[i] = b[1]
            BY <2>2, <1>2, <1>5
        <3> QED BY <3>1, <3>2
    <2>3. CASE i > Len(a) + 1
        <3>1. i - (Len(a) + 1) \in 1..Len(Tail(b))
            BY <2>3, <1>1, <1>2
        <3>2. Tail(b)[i - (Len(a) + 1)] = b[i - Len(a)]
            BY <3>1, <1>1, <1>2
        <3> QED BY <3>2, <2>3, <1>2, <1>4, <1>5
    <2> QED BY <2>1, <2>2, <2>3, <1>2
<1>7. c \o Tail(b) = a \o b
    BY <1>4, <1>5, <1>6, <1>2, SeqEqual
<1> QED BY <1>1, <1>3, <1>7

(* The next unit of a sequence is the one after any beginning of it. *)
LEMMA NextUnit ==
    ASSUME NEW a \in Seq(Units), NEW b \in Seq(Units), b # <<>>
    PROVE  Len(a) < Len(a \o b) /\ (a \o b)[Len(a) + 1] = Head(b)
<1>1. Len(a) \in Nat /\ Len(b) \in Nat /\ Len(b) >= 1
    BY NoneIsEmpty
<1>2. /\ Len(a \o b) = Len(a) + Len(b)
      /\ \A i \in 1..(Len(a) + Len(b)) : (a \o b)[i] =
            IF i <= Len(a) THEN a[i] ELSE b[i - Len(a)]
    BY ConcatProperties
<1>3. Head(b) = b[1]
    BY HeadTailProperties
<1>4. (a \o b)[Len(a) + 1] = b[(Len(a) + 1) - Len(a)]
    BY <1>1, <1>2
<1>5. (Len(a) + 1) - Len(a) = 1
    BY <1>1
<1> QED BY <1>1, <1>2, <1>3, <1>4, <1>5

-----------------------------------------------------------------------------
(* What the operations of a gate do *)

GateOK(gt) == gt \in GateType /\ Len(gt.snd) <= Capacity
GatesOK(gs) == gs \in [Gates -> GateType] /\ \A g \in Gates : GateOK(gs[g])

LEMMA Two == \A g \in Gates : Other(g) \in Gates /\ Other(g) # g /\ Other(Other(g)) = g
BY DEF Gates, Other

LEMMA WrittenFits ==
    ASSUME NEW g \in Gates, NEW gt, GateOK(gt)
    PROVE  LET n == Written(g, gt.output, gt.snd)
           IN /\ n \in 0..Len(gt.output)
              /\ Len(gt.snd) + n <= Capacity
              /\ n < Len(gt.output) => Len(gt.snd) + n = Capacity \/ peer[g] = "rst"
<1>1. gt.output \in Seq(Units) /\ gt.snd \in Seq(Units) /\ Len(gt.snd) <= Capacity
    BY DEF GateOK, GateType
<1>2. Len(gt.output) \in Nat /\ Len(gt.snd) \in Nat
    BY <1>1, NoneIsEmpty
<1>3. Capacity \in Nat
    BY TunnelAssumption
<1> DEFINE a == Len(gt.output)
           b == Len(gt.snd)
           n == Written(g, gt.output, gt.snd)
<1>4. n = IF peer[g] = "rst" THEN 0 ELSE IF Capacity - b < a THEN Capacity - b ELSE a
    BY DEF Written
<1> HIDE DEF a, b, n
<1>5. a \in Nat /\ b \in Nat /\ b <= Capacity
    BY <1>1, <1>2 DEF a, b
<1>6. /\ n \in 0..a
      /\ b + n <= Capacity
      /\ n < a => b + n = Capacity \/ peer[g] = "rst"
    BY <1>3, <1>4, <1>5
<1> QED BY <1>6 DEF a, b, n

(* gate::send keeps the types, and the order of what is on its way; what is *)
(* left is left for want of room.                                          *)
LEMMA FlushedOK ==
    ASSUME NEW g \in Gates, NEW gt, GateOK(gt)
    PROVE  LET f == Flushed(g, gt)
           IN /\ GateOK(f)
              /\ f.snd \o f.output = gt.snd \o gt.output
              /\ f.input = gt.input /\ f.rcv = gt.rcv
              /\ f.output # <<>> => f.nospace
              /\ gt.nospace => f.nospace
              /\ f.nospace => gt.nospace \/ f.snd # <<>> \/ peer[g] = "rst"
              /\ gt.snd # <<>> => f.snd # <<>>
<1> DEFINE n == Written(g, gt.output, gt.snd)
           one == SubSeq(gt.output, 1, n)
           two == SubSeq(gt.output, n + 1, Len(gt.output))
           f == Flushed(g, gt)
<1>1. /\ gt.output \in Seq(Units) /\ gt.snd \in Seq(Units) /\ gt.input \in Seq(Units)
      /\ gt.rcv \in Seq(Units) /\ gt.nospace \in BOOLEAN /\ Len(gt.snd) <= Capacity
    BY DEF GateOK, GateType
<1>2. Len(gt.output) \in Nat /\ Len(gt.snd) \in Nat
    BY <1>1, NoneIsEmpty
<1>3. Capacity \in Nat /\ Capacity # 0
    BY TunnelAssumption
<1>4. /\ n \in 0..Len(gt.output)
      /\ Len(gt.snd) + n <= Capacity
      /\ n < Len(gt.output) => Len(gt.snd) + n = Capacity \/ peer[g] = "rst"
    BY WrittenFits
<1> HIDE DEF n
<1>5. /\ one \in Seq(Units) /\ Len(one) = n
      /\ two \in Seq(Units) /\ Len(two) = Len(gt.output) - n
      /\ one \o two = gt.output
    BY <1>1, <1>4, Split
<1> HIDE DEF one, two, f
<1>6. gt.snd \o one \in Seq(Units) /\ Len(gt.snd \o one) = Len(gt.snd) + n
    BY <1>1, <1>5, ConcatProperties
<1>7. /\ f.input = gt.input /\ f.output = two /\ f.rcv = gt.rcv /\ f.snd = gt.snd \o one
      /\ f.nospace = (gt.nospace \/ n < Len(gt.output))
      /\ f \in GateType
    <2> DEFINE full == gt.nospace \/ n < Len(gt.output)
    <2>1. gt \in GateType /\ full \in BOOLEAN
        BY DEF GateOK
    <2>2. f = [gt EXCEPT !.snd = gt.snd \o one, !.output = two, !.nospace = full]
        BY <2>1 DEF Flushed, GateType, n, one, two, f
    <2> HIDE DEF full
    <2>3. [gt EXCEPT !.snd = gt.snd \o one, !.output = two, !.nospace = full] \in GateType
        BY <2>1, <1>5, <1>6 DEF GateType
    <2>4. f.nospace = full
        BY <2>1, <2>2 DEF GateType
    <2>5. /\ f.input = gt.input /\ f.output = two /\ f.rcv = gt.rcv
          /\ f.snd = gt.snd \o one
        BY <2>1, <2>2 DEF GateType
    <2> QED BY <2>2, <2>3, <2>4, <2>5 DEF full
<1>8. GateOK(f)
    BY <1>4, <1>6, <1>7 DEF GateOK
<1>9. f.snd \o f.output = gt.snd \o gt.output
    <2>1. f.snd \o f.output = (gt.snd \o one) \o two
        BY <1>7
    <2>2. (gt.snd \o one) \o two = gt.snd \o (one \o two)
        BY <1>1, <1>5, Associative
    <2> QED BY <2>1, <2>2, <1>5
<1>10. f.output # <<>> => n < Len(gt.output)
    BY <1>2, <1>4, <1>5, <1>7, NoneIsEmpty
<1>11. f.snd # <<>> <=> Len(gt.snd) + n # 0
    BY <1>6, <1>7, NoneIsEmpty
<1>12. gt.snd # <<>> => f.snd # <<>>
    BY <1>1, <1>2, <1>4, <1>11, NoneIsEmpty
<1>13. f.nospace => gt.nospace \/ f.snd # <<>> \/ peer[g] = "rst"
    BY <1>3, <1>4, <1>7, <1>11
<1>14. /\ f.input = gt.input /\ f.rcv = gt.rcv
       /\ f.output # <<>> => f.nospace
       /\ gt.nospace => f.nospace
    BY <1>7, <1>10
<1> QED BY <1>8, <1>9, <1>12, <1>13, <1>14 DEF f

Same(gs, hs) == \A g \in Gates : Stream(hs, g) = Stream(gs, g)

(* Where a write has found no room, the peer has something to take. *)
Room(gs) == \A g \in Gates : gs[g].nospace => gs[g].snd # <<>> \/ peer[g] = "rst"

(* The output that is left waits for room. *)
Waits(gs, g) == gs[g].output # <<>> => gs[g].nospace

LEMMA SendOK ==
    ASSUME NEW gs, GatesOK(gs), NEW g \in Gates
    PROVE  LET s == Send(gs, g)
           IN /\ GatesOK(s) /\ Same(gs, s) /\ (Room(gs) => Room(s)) /\ Waits(s, g)
              /\ s[Other(g)] = gs[Other(g)]
              /\ s[g].input = gs[g].input /\ s[g].rcv = gs[g].rcv
<1> DEFINE s == Send(gs, g)
           f == Flushed(g, gs[g])
<1>1. GateOK(gs[g]) /\ gs \in [Gates -> GateType]
    BY DEF GatesOK
<1>2. /\ GateOK(f)
      /\ f.snd \o f.output = gs[g].snd \o gs[g].output
      /\ f.input = gs[g].input /\ f.rcv = gs[g].rcv
      /\ f.output # <<>> => f.nospace
      /\ f.nospace => gs[g].nospace \/ f.snd # <<>> \/ peer[g] = "rst"
      /\ gs[g].snd # <<>> => f.snd # <<>>
    BY <1>1, FlushedOK
<1>3. s = [gs EXCEPT ![g] = f]
    BY DEF Send
<1> HIDE DEF f, s
<1>4. s[g] = f /\ \A h \in Gates : h # g => s[h] = gs[h]
    BY <1>1, <1>3
<1>5. GatesOK(s)
    BY <1>1, <1>2, <1>3, <1>4 DEF GatesOK, GateOK
<1>6. ASSUME NEW h \in Gates PROVE Stream(s, h) = Stream(gs, h)
    <2>1. CASE h = g
        <3>1. Other(h) # g /\ Other(h) \in Gates
            BY <2>1, Two
        <3> QED BY <2>1, <3>1, <1>2, <1>4 DEF Stream
    <2>2. CASE h # g
        <3>1. Other(h) = g
            BY <2>2 DEF Other, Gates
        <3> QED BY <2>2, <3>1, <1>2, <1>4 DEF Stream
    <2> QED BY <2>1, <2>2
<1>7. Room(gs) => Room(s)
    BY <1>2, <1>4 DEF Room
<1>8. Waits(s, g)
    BY <1>2, <1>4 DEF Waits
<1>9. s[Other(g)] = gs[Other(g)] /\ s[g].input = gs[g].input /\ s[g].rcv = gs[g].rcv
    BY <1>2, <1>4, Two
<1> QED BY <1>5, <1>6, <1>7, <1>8, <1>9 DEF s, Same

LEMMA ReceiveOK ==
    ASSUME NEW gs, GatesOK(gs), NEW g \in Gates
    PROVE  LET s == Receive(gs, g)
           IN /\ GatesOK(s) /\ Same(gs, s) /\ (Room(gs) => Room(s))
              /\ s[Other(g)] = gs[Other(g)]
              /\ s[g].rcv = <<>>
              /\ s[g].output = gs[g].output /\ s[g].nospace = gs[g].nospace
<1> DEFINE s == Receive(gs, g)
           f == Received(gs[g])
<1>1. gs[g] \in GateType /\ gs \in [Gates -> GateType] /\ GateOK(gs[g])
    BY DEF GatesOK, GateOK
<1>2. /\ gs[g].input \in Seq(Units) /\ gs[g].rcv \in Seq(Units)
      /\ gs[g].input \o gs[g].rcv \in Seq(Units)
    BY <1>1, Closed DEF GateType
<1>3. /\ f \in GateType
      /\ f.input = gs[g].input \o gs[g].rcv /\ f.rcv = <<>>
      /\ f.output = gs[g].output /\ f.snd = gs[g].snd /\ f.nospace = gs[g].nospace
    BY <1>1, <1>2, NothingAdded DEF GateType, Received
<1>4. s = [gs EXCEPT ![g] = f]
    BY <1>1 DEF Receive
<1> HIDE DEF f, s
<1>5. s[g] = f /\ \A h \in Gates : h # g => s[h] = gs[h]
    BY <1>1, <1>4
<1>6. GatesOK(s)
    BY <1>1, <1>3, <1>4, <1>5 DEF GatesOK, GateOK
<1>7. ASSUME NEW h \in Gates PROVE Stream(s, h) = Stream(gs, h)
    <2>1. CASE h = g
        <3> DEFINE way == gs[Other(h)].snd \o gs[Other(h)].output
        <3>1. Other(h) # g /\ Other(h) \in Gates /\ s[Other(h)] = gs[Other(h)]
            BY <2>1, <1>5, Two
        <3>2. gs[Other(h)] \in GateType
            BY <3>1, <1>1
        <3>3. way \in Seq(Units)
            BY <3>2, Closed DEF GateType
        <3>4. Stream(s, h) = (way \o (gs[h].input \o gs[h].rcv)) \o <<>>
            BY <2>1, <3>1, <1>3, <1>5 DEF Stream
        <3>5. Stream(gs, h) = (way \o gs[h].input) \o gs[h].rcv
            BY DEF Stream
        <3> HIDE DEF way
        <3>6. (way \o (gs[h].input \o gs[h].rcv)) \o <<>> = way \o (gs[h].input \o gs[h].rcv)
            BY <2>1, <3>3, <1>2, Closed, NothingAdded
        <3>7. (way \o gs[h].input) \o gs[h].rcv = way \o (gs[h].input \o gs[h].rcv)
            BY <2>1, <3>3, <1>2, Associative
        <3> QED BY <3>4, <3>5, <3>6, <3>7
    <2>2. CASE h # g
        <3>1. Other(h) = g
            BY <2>2 DEF Other, Gates
        <3> QED BY <2>2, <3>1, <1>3, <1>5 DEF Stream
    <2> QED BY <2>1, <2>2
<1>8. Room(gs) => Room(s)
    BY <1>3, <1>5 DEF Room
<1>9. s[Other(g)] = gs[Other(g)]
    BY <1>5, Two
<1> QED BY <1>3, <1>5, <1>6, <1>7, <1>8, <1>9 DEF s, Same

LEMMA MovedOK ==
    ASSUME NEW gs, GatesOK(gs), NEW g \in Gates
    PROVE  LET s == Moved(gs, g)
               o == Other(g)
           IN /\ GatesOK(s) /\ Same(gs, s) /\ (Room(gs) => Room(s))
              /\ s[g].input = <<>> /\ s[o].input = gs[o].input
              /\ s[g].rcv = gs[g].rcv /\ s[o].rcv = gs[o].rcv
              /\ s[g].output = gs[g].output /\ s[g].nospace = gs[g].nospace
<1> DEFINE o == Other(g)
           s == Moved(gs, g)
           f == [gs[o] EXCEPT !.output = gs[o].output \o gs[g].input]
           e == [gs[g] EXCEPT !.input = <<>>]
<1>1. /\ gs \in [Gates -> GateType] /\ GateOK(gs[g]) /\ GateOK(gs[o])
      /\ gs[g] \in GateType /\ gs[o] \in GateType
      /\ o \in Gates /\ o # g /\ Other(o) = g
    BY Two DEF GatesOK, GateOK
<1>2. /\ gs[g].input \in Seq(Units) /\ gs[o].output \in Seq(Units)
      /\ gs[o].output \o gs[g].input \in Seq(Units)
    BY <1>1, Closed DEF GateType
<1>3. /\ f \in GateType
      /\ f.input = gs[o].input /\ f.rcv = gs[o].rcv
      /\ f.output = gs[o].output \o gs[g].input
      /\ f.snd = gs[o].snd /\ f.nospace = gs[o].nospace
    BY <1>1, <1>2 DEF GateType
<1>4. /\ e \in GateType
      /\ e.input = <<>> /\ e.rcv = gs[g].rcv
      /\ e.output = gs[g].output /\ e.snd = gs[g].snd /\ e.nospace = gs[g].nospace
    BY <1>1, NothingAdded DEF GateType
<1>5. s = [gs EXCEPT ![o] = f, ![g] = e]
    BY <1>1 DEF Moved
<1> HIDE DEF e, f, s, o
<1>6. s[g] = e /\ s[o] = f
    BY <1>1, <1>5
<1>7. \A h \in Gates : h = g \/ h = o
    BY <1>1 DEF Gates
<1>8. GatesOK(s)
    <2>1. s \in [Gates -> GateType]
        BY <1>1, <1>3, <1>4, <1>5
    <2>2. GateOK(s[g]) /\ GateOK(s[o])
        BY <1>1, <1>3, <1>4, <1>6 DEF GateOK
    <2> QED BY <2>1, <2>2, <1>7 DEF GatesOK
<1>9. Stream(s, g) = Stream(gs, g)
    <2> DEFINE a == gs[o].snd
               b == gs[o].output
               c == gs[g].input
               d == gs[g].rcv
    <2>1. /\ a \in Seq(Units) /\ b \in Seq(Units) /\ c \in Seq(Units) /\ d \in Seq(Units)
        BY <1>1 DEF GateType
    <2>2. Stream(s, g) = ((a \o (b \o c)) \o <<>>) \o d
        BY <1>3, <1>4, <1>6 DEF Stream, o
    <2>3. Stream(gs, g) = ((a \o b) \o c) \o d
        BY DEF Stream, o
    <2> HIDE DEF a, b, c, d
    <2>4. (a \o (b \o c)) \o <<>> = a \o (b \o c)
        BY <2>1, Closed, NothingAdded
    <2>5. (a \o b) \o c = a \o (b \o c)
        BY <2>1, Associative
    <2> QED BY <2>2, <2>3, <2>4, <2>5
<1>10. Stream(s, o) = Stream(gs, o)
    BY <1>1, <1>3, <1>4, <1>6 DEF Stream
<1>11. Same(gs, s)
    BY <1>7, <1>9, <1>10 DEF Same
<1>12. Room(gs) => Room(s)
    BY <1>1, <1>3, <1>4, <1>6, <1>7 DEF Room
<1> QED BY <1>3, <1>4, <1>6, <1>8, <1>11, <1>12 DEF s, o

LEMMA TunnelOK ==
    ASSUME NEW gs, GatesOK(gs), NEW g \in Gates
    PROVE  LET s == Tunnel(gs, g)
               o == Other(g)
           IN /\ GatesOK(s) /\ Same(gs, s) /\ (Room(gs) => Room(s)) /\ Waits(s, o)
              /\ s[g].input = <<>> /\ s[o].input = gs[o].input
              /\ s[g].rcv = gs[g].rcv /\ s[o].rcv = gs[o].rcv
              /\ s[g].output = gs[g].output /\ s[g].nospace = gs[g].nospace
<1> DEFINE o == Other(g)
           m == Moved(gs, g)
           s == Send(m, o)
<1>1. o \in Gates /\ Other(o) = g
    BY Two
<1>2. /\ GatesOK(m) /\ Same(gs, m) /\ (Room(gs) => Room(m))
      /\ m[g].input = <<>> /\ m[o].input = gs[o].input
      /\ m[g].rcv = gs[g].rcv /\ m[o].rcv = gs[o].rcv
      /\ m[g].output = gs[g].output /\ m[g].nospace = gs[g].nospace
    BY MovedOK
<1> HIDE DEF m
<1>3. /\ GatesOK(s) /\ Same(m, s) /\ (Room(m) => Room(s)) /\ Waits(s, o)
      /\ s[Other(o)] = m[Other(o)]
      /\ s[o].input = m[o].input /\ s[o].rcv = m[o].rcv
    BY <1>1, <1>2, SendOK
<1>4. s = Tunnel(gs, g)
    BY DEF Tunnel, m
<1> HIDE DEF s, o
<1>5. Same(gs, s)
    BY <1>2, <1>3 DEF Same
<1> QED BY <1>1, <1>2, <1>3, <1>4, <1>5 DEF o

-----------------------------------------------------------------------------
(* What the callbacks do to the buffers *)

(* A gate's output is as before, or waits for room. *)
AsBefore(gs, hs, g) == hs[g].output = gs[g].output /\ hs[g].nospace = gs[g].nospace

Sent(gs, hs, g) == Waits(hs, g) \/ AsBefore(gs, hs, g)

LEMMA InOK ==
    ASSUME NEW gs, GatesOK(gs), NEW g \in Gates
    PROVE  LET s == In(gs, g)
               o == Other(g)
           IN /\ GatesOK(s) /\ Same(gs, s) /\ (Room(gs) => Room(s))
              /\ s[o].input = gs[o].input /\ s[o].rcv = gs[o].rcv
              /\ s[g].input \in {<<>>, gs[g].input}
              /\ s[g].rcv = IF "in" \in mask[g] THEN <<>> ELSE gs[g].rcv
              /\ Sent(gs, s, o) /\ AsBefore(gs, s, g)
<1> DEFINE o == Other(g)
           s == In(gs, g)
<1>1. CASE "in" \in mask[g]
    <2> DEFINE r == Receive(gs, g)
               t == Tunnel(r, g)
    <2>1. s = t
        BY <1>1 DEF In
    <2>2. /\ GatesOK(r) /\ Same(gs, r) /\ (Room(gs) => Room(r))
          /\ r[o] = gs[o] /\ r[g].rcv = <<>>
          /\ r[g].output = gs[g].output /\ r[g].nospace = gs[g].nospace
        BY ReceiveOK
    <2> HIDE DEF r
    <2>3. /\ GatesOK(t) /\ Same(r, t) /\ (Room(r) => Room(t)) /\ Waits(t, o)
          /\ t[g].input = <<>> /\ t[o].input = r[o].input
          /\ t[g].rcv = r[g].rcv /\ t[o].rcv = r[o].rcv
          /\ t[g].output = r[g].output /\ t[g].nospace = r[g].nospace
        BY <2>2, TunnelOK
    <2> HIDE DEF t, s, o
    <2>4. Same(gs, t)
        BY <2>2, <2>3 DEF Same
    <2> QED BY <1>1, <2>1, <2>2, <2>3, <2>4 DEF Sent, AsBefore, s, o
<1>2. CASE "in" \notin mask[g]
    BY <1>2 DEF In, Same, Sent, AsBefore
<1> QED BY <1>1, <1>2

LEMMA OutFromOK ==
    ASSUME NEW gs, GatesOK(gs)
    PROVE  LET s == OutFrom(gs)
           IN /\ GatesOK(s) /\ Same(gs, s) /\ (Room(gs) => Room(s))
              /\ \A g \in Gates : s[g].input = gs[g].input /\ s[g].rcv = gs[g].rcv
              /\ AsBefore(gs, s, "to")
              /\ IF "out" \in mask["from"] THEN Waits(s, "from") ELSE AsBefore(gs, s, "from")
<1> DEFINE s == OutFrom(gs)
<1>1. CASE "out" \in mask["from"]
    <2> DEFINE t == Send(gs, "from")
    <2>1. s = t
        BY <1>1 DEF OutFrom
    <2>2. "from" \in Gates /\ Other("from") = "to"
        BY DEF Gates, Other
    <2>3. /\ GatesOK(t) /\ Same(gs, t) /\ (Room(gs) => Room(t)) /\ Waits(t, "from")
          /\ t[Other("from")] = gs[Other("from")]
          /\ t["from"].input = gs["from"].input /\ t["from"].rcv = gs["from"].rcv
        BY <2>2, SendOK
    <2> HIDE DEF t, s
    <2> QED BY <1>1, <2>1, <2>2, <2>3 DEF AsBefore, Gates, s
<1>2. CASE "out" \notin mask["from"]
    BY <1>2 DEF OutFrom, Same, AsBefore
<1> QED BY <1>1, <1>2

LEMMA OutToOK ==
    ASSUME NEW gs, GatesOK(gs)
    PROVE  LET s == OutTo(gs)
           IN /\ GatesOK(s) /\ Same(gs, s) /\ (Room(gs) => Room(s))
              /\ \A g \in Gates : s[g].rcv = gs[g].rcv
              /\ s["to"].input = gs["to"].input
              /\ AsBefore(gs, s, "from")
              /\ IF "out" \in mask["to"]
                 THEN Waits(s, "to") /\ s["from"].input = <<>>
                 ELSE AsBefore(gs, s, "to") /\ s["from"].input = gs["from"].input
<1> DEFINE s == OutTo(gs)
<1>1. CASE "out" \in mask["to"]
    <2> DEFINE r == Send(gs, "to")
               t == Tunnel(r, "from")
    <2>1. s = t
        BY <1>1 DEF OutTo
    <2>2. /\ "from" \in Gates /\ "to" \in Gates
          /\ Other("from") = "to" /\ Other("to") = "from"
        BY DEF Gates, Other
    <2>3. /\ GatesOK(r) /\ Same(gs, r) /\ (Room(gs) => Room(r))
          /\ r["from"] = gs["from"]
          /\ r["to"].input = gs["to"].input /\ r["to"].rcv = gs["to"].rcv
        BY <2>2, SendOK
    <2> HIDE DEF r
    <2>4. /\ GatesOK(t) /\ Same(r, t) /\ (Room(r) => Room(t)) /\ Waits(t, "to")
          /\ t["from"].input = <<>> /\ t["to"].input = r["to"].input
          /\ t["from"].rcv = r["from"].rcv /\ t["to"].rcv = r["to"].rcv
          /\ t["from"].output = r["from"].output /\ t["from"].nospace = r["from"].nospace
        BY <2>2, <2>3, TunnelOK
    <2> HIDE DEF t, s
    <2>5. Same(gs, t)
        BY <2>3, <2>4 DEF Same
    <2> QED BY <1>1, <2>1, <2>3, <2>4, <2>5 DEF AsBefore, Gates, s
<1>2. CASE "out" \notin mask["to"]
    BY <1>2 DEF OutTo, Same, AsBefore
<1> QED BY <1>1, <1>2

(* The buffers after the callback of the client's socket. *)
AfterFrom == OutFrom(In(gate, "from"))

LEMMA AfterFromOK ==
    ASSUME GatesOK(gate)
    PROVE  LET s == AfterFrom
           IN /\ GatesOK(s) /\ Same(gate, s) /\ (Room(gate) => Room(s))
              /\ s["to"].input = gate["to"].input /\ s["to"].rcv = gate["to"].rcv
              /\ s["from"].input \in {<<>>, gate["from"].input}
              /\ s["from"].rcv = IF "in" \in mask["from"] THEN <<>> ELSE gate["from"].rcv
              /\ Sent(gate, s, "to")
              /\ IF "out" \in mask["from"] THEN Waits(s, "from") ELSE AsBefore(gate, s, "from")
<1> DEFINE r == In(gate, "from")
           s == OutFrom(r)
<1>1. "from" \in Gates /\ "to" \in Gates /\ Other("from") = "to"
    BY DEF Gates, Other
<1>2. /\ GatesOK(r) /\ Same(gate, r) /\ (Room(gate) => Room(r))
      /\ r["to"].input = gate["to"].input /\ r["to"].rcv = gate["to"].rcv
      /\ r["from"].input \in {<<>>, gate["from"].input}
      /\ r["from"].rcv = IF "in" \in mask["from"] THEN <<>> ELSE gate["from"].rcv
      /\ Sent(gate, r, "to") /\ AsBefore(gate, r, "from")
    BY <1>1, InOK
<1> HIDE DEF r
<1>3. /\ GatesOK(s) /\ Same(r, s) /\ (Room(r) => Room(s))
      /\ \A g \in Gates : s[g].input = r[g].input /\ s[g].rcv = r[g].rcv
      /\ AsBefore(r, s, "to")
      /\ IF "out" \in mask["from"] THEN Waits(s, "from") ELSE AsBefore(r, s, "from")
    BY <1>2, OutFromOK
<1>4. s = AfterFrom
    BY DEF AfterFrom, r
<1> HIDE DEF s
<1>5. Same(gate, s)
    BY <1>2, <1>3 DEF Same
<1>6. Sent(gate, s, "to")
    BY <1>2, <1>3 DEF Sent, AsBefore, Waits
<1>7. IF "out" \in mask["from"] THEN Waits(s, "from") ELSE AsBefore(gate, s, "from")
    BY <1>2, <1>3 DEF AsBefore
<1> QED BY <1>1, <1>2, <1>3, <1>4, <1>5, <1>6, <1>7

(* The buffers after the callback of the backend's socket. *)
AfterTo == OutTo(In(gate, "to"))

LEMMA AfterToOK ==
    ASSUME GatesOK(gate)
    PROVE  LET s == AfterTo
           IN /\ GatesOK(s) /\ Same(gate, s) /\ (Room(gate) => Room(s))
              /\ s["to"].input \in {<<>>, gate["to"].input}
              /\ s["from"].rcv = gate["from"].rcv
              /\ s["to"].rcv = IF "in" \in mask["to"] THEN <<>> ELSE gate["to"].rcv
              /\ Sent(gate, s, "from")
              /\ IF "out" \in mask["to"]
                 THEN Waits(s, "to") /\ s["from"].input = <<>>
                 ELSE AsBefore(gate, s, "to") /\ s["from"].input = gate["from"].input
<1> DEFINE r == In(gate, "to")
           s == OutTo(r)
<1>1. "from" \in Gates /\ "to" \in Gates /\ Other("to") = "from"
    BY DEF Gates, Other
<1>2. /\ GatesOK(r) /\ Same(gate, r) /\ (Room(gate) => Room(r))
      /\ r["from"].input = gate["from"].input /\ r["from"].rcv = gate["from"].rcv
      /\ r["to"].input \in {<<>>, gate["to"].input}
      /\ r["to"].rcv = IF "in" \in mask["to"] THEN <<>> ELSE gate["to"].rcv
      /\ Sent(gate, r, "from") /\ AsBefore(gate, r, "to")
    BY <1>1, InOK
<1> HIDE DEF r
<1>3. /\ GatesOK(s) /\ Same(r, s) /\ (Room(r) => Room(s))
      /\ \A g \in Gates : s[g].rcv = r[g].rcv
      /\ s["to"].input = r["to"].input
      /\ AsBefore(r, s, "from")
      /\ IF "out" \in mask["to"]
         THEN Waits(s, "to") /\ s["from"].input = <<>>
         ELSE AsBefore(r, s, "to") /\ s["from"].input = r["from"].input
    BY <1>2, OutToOK
<1>4. s = AfterTo
    BY DEF AfterTo, r
<1> HIDE DEF s
<1>5. Same(gate, s)
    BY <1>2, <1>3 DEF Same
<1>6. Sent(gate, s, "from")
    BY <1>2, <1>3 DEF Sent, AsBefore, Waits
<1>7. IF "out" \in mask["to"]
      THEN Waits(s, "to") /\ s["from"].input = <<>>
      ELSE AsBefore(gate, s, "to") /\ s["from"].input = gate["from"].input
    BY <1>2, <1>3 DEF AsBefore
<1> QED BY <1>1, <1>2, <1>3, <1>4, <1>5, <1>6, <1>7

-----------------------------------------------------------------------------
(* Types *)

LEMMA TypesAreOK == TypeOK => GatesOK(gate)
BY DEF TypeOK, GatesOK, GateOK

LEMMA ErasedOK ==
    ASSUME NEW gs, GatesOK(gs)
    PROVE  /\ GatesOK(Erased(gs))
           /\ \A g \in Gates : Erased(gs)[g].snd = gs[g].snd
<1>1. ASSUME NEW g \in Gates
      PROVE  /\ Erased(gs)[g] \in GateType
             /\ Erased(gs)[g].snd = gs[g].snd
             /\ Len(gs[g].snd) <= Capacity
    <2>1. gs[g] \in GateType /\ Len(gs[g].snd) <= Capacity
        BY DEF GatesOK, GateOK
    <2>2. Erased(gs)[g] = [gs[g] EXCEPT !.input = <<>>, !.output = <<>>, !.rcv = <<>>]
        BY DEF Erased
    <2> QED BY <2>1, <2>2, NothingAdded DEF GateType
<1>2. Erased(gs) \in [Gates -> GateType]
    BY <1>1 DEF Erased
<1> QED BY <1>1, <1>2 DEF GatesOK, GateOK

LEMMA NumberedOK ==
    ASSUME NEW a \in Nat, NEW b \in Nat, b >= a
    PROVE  Numbered(a + 1, b) \in Seq(Units) /\ (b = a => Numbered(a + 1, b) = <<>>)
<1> DEFINE n == b - (a + 1) + 1
           s == Numbered(a + 1, b)
<1>1. n \in Nat /\ (b = a => n = 0)
    OBVIOUS
<1>2. s = [i \in 1..n |-> (a + 1) + i - 1]
    BY DEF Numbered
<1>3. \A i \in 1..n : (a + 1) + i - 1 \in Units
    BY <1>1 DEF Units
<1> HIDE DEF n, s
<1>4. s \in [1..n -> Units]
    BY <1>2, <1>3
<1>5. s \in Seq(Units)
    BY <1>1, <1>4, SeqDef
<1>6. Len(s) = n
    BY <1>1, <1>4, <1>5, LenProperties
<1>7. b = a => s = <<>>
    BY <1>1, <1>5, <1>6, NoneIsEmpty
<1> QED BY <1>5, <1>7 DEF s

LEMMA NumberedTogether ==
    ASSUME NEW a \in Nat, NEW b \in Nat, b >= a
    PROVE  Numbered(1, a) \o Numbered(a + 1, b) = Numbered(1, b)
<1> DEFINE x == Numbered(1, a)
           y == Numbered(a + 1, b)
           z == Numbered(1, b)
<1>1. x = [i \in 1..a |-> i] /\ z = [i \in 1..b |-> i]
    BY DEF Numbered
<1>2. y = [i \in 1..(b - a) |-> a + i]
    BY DEF Numbered
<1> HIDE DEF x, y, z
<1>3. x \in [1..a -> Units] /\ z \in [1..b -> Units]
    BY <1>1 DEF Units
<1>4. y \in [1..(b - a) -> Units] /\ b - a \in Nat
    BY <1>2 DEF Units
<1>5. x \in Seq(Units) /\ y \in Seq(Units) /\ z \in Seq(Units)
    BY <1>3, <1>4, SeqDef
<1>6. Len(x) = a /\ Len(y) = b - a /\ Len(z) = b
    BY <1>3, <1>4, <1>5, LenProperties
<1>7. /\ x \o y \in Seq(Units)
      /\ Len(x \o y) = Len(x) + Len(y)
      /\ \A i \in 1..(Len(x) + Len(y)) : (x \o y)[i] =
            IF i <= Len(x) THEN x[i] ELSE y[i - Len(x)]
    BY <1>5, ConcatProperties
<1>8. Len(x) + Len(y) = b
    BY <1>6
<1>9. ASSUME NEW i \in 1..b PROVE (x \o y)[i] = z[i]
    BY <1>1, <1>2, <1>6, <1>7, <1>8
<1>10. x \o y = z
    BY <1>5, <1>6, <1>7, <1>8, <1>9, SeqEqual
<1> QED BY <1>10 DEF x, y, z

LEMMA InitOK ==
    Init => TypeOK /\ Room(gate) /\ Waits(gate, "to") /\ gate["to"].input = <<>>
            /\ gate["from"].output = <<>>
            /\ (\A g \in Gates : gate[g].rcv = <<>> /\ put[g] = Stream(gate, g))
<1> SUFFICES ASSUME Init
             PROVE  /\ TypeOK /\ Room(gate) /\ Waits(gate, "to") /\ gate["to"].input = <<>>
                    /\ gate["from"].output = <<>>
                    /\ (\A g \in Gates : gate[g].rcv = <<>> /\ put[g] = Stream(gate, g))
    OBVIOUS
<1>1. PICK early \in 1..MaxEarly, left \in {0, 1} :
          /\ put = [g \in Gates |-> IF g = "from" THEN Numbered(1, early + left) ELSE <<>>]
          /\ gate = Send([from |-> [EmptyGate EXCEPT !.input = Numbered(early + 1, early + left)],
                          to |-> [EmptyGate EXCEPT !.output = Numbered(1, early)]], "to")
    BY DEF Init
<1> DEFINE begin == Numbered(1, early)
           more == Numbered(early + 1, early + left)
           all == Numbered(1, early + left)
           from == [EmptyGate EXCEPT !.input = more]
           to == [EmptyGate EXCEPT !.output = begin]
           start == [g \in Gates |-> IF g = "from" THEN from ELSE to]
<1>2. early \in Nat /\ left \in Nat /\ early + left >= early /\ early + left \in Nat
    BY TunnelAssumption
<1>3. /\ begin \in Seq(Units) /\ more \in Seq(Units) /\ all \in Seq(Units)
      /\ begin \o more = all
    <2>1. more \in Seq(Units)
        BY <1>2, NumberedOK
    <2>2. Numbered(0 + 1, early) \in Seq(Units) /\ Numbered(0 + 1, early + left) \in Seq(Units)
        BY <1>2, NumberedOK
    <2>3. begin \o more = all
        BY <1>2, NumberedTogether
    <2> QED BY <2>1, <2>2, <2>3
<1> HIDE DEF begin, more, all
<1>4. /\ from \in GateType /\ to \in GateType
      /\ from.input = more /\ from.output = <<>> /\ from.rcv = <<>> /\ from.snd = <<>>
      /\ to.input = <<>> /\ to.output = begin /\ to.rcv = <<>> /\ to.snd = <<>>
      /\ from.nospace = FALSE /\ to.nospace = FALSE
    BY <1>3, NothingAdded DEF EmptyGate, GateType
<1> HIDE DEF from, to
<1>5. Capacity \in Nat /\ Len(<<>>) = 0
    BY TunnelAssumption, EmptySeq
<1>6. /\ start \in [Gates -> GateType] /\ start["from"] = from /\ start["to"] = to
      /\ \A g \in Gates : Len(start[g].snd) <= Capacity /\ start[g].rcv = <<>>
    BY <1>4, <1>5 DEF Gates
<1>7. start = [from |-> from, to |-> to]
    BY DEF Gates
<1> HIDE DEF start
<1>8. GatesOK(start) /\ Room(start)
    <2>1. GatesOK(start)
        BY <1>6 DEF GatesOK, GateOK
    <2>2. Room(start)
        BY <1>4, <1>6 DEF Room, Gates
    <2> QED BY <2>1, <2>2
<1>9. gate = Send(start, "to")
    BY <1>1, <1>7 DEF from, to, begin, more
<1>10. "from" \in Gates /\ "to" \in Gates /\ Other("to") = "from" /\ Other("from") = "to"
    BY DEF Gates, Other
<1>11. /\ GatesOK(gate) /\ Same(start, gate) /\ Room(gate) /\ Waits(gate, "to")
       /\ gate["from"] = from
       /\ gate["to"].input = <<>> /\ gate["to"].rcv = <<>>
    BY <1>4, <1>6, <1>8, <1>9, <1>10, SendOK
<1>12. put \in [Gates -> Seq(Units)] /\ put["from"] = all /\ put["to"] = <<>>
    BY <1>1, <1>3, <1>10, NothingAdded DEF all
<1>13. Stream(start, "from") = all
    <2>1. Stream(start, "from") = ((<<>> \o begin) \o more) \o <<>>
        BY <1>4, <1>6, <1>10 DEF Stream
    <2>2. <<>> \o begin = begin /\ all \o <<>> = all
        BY <1>3, NothingAdded
    <2> QED BY <2>1, <2>2, <1>3
<1>14. Stream(start, "to") = <<>>
    <2>1. Stream(start, "to") = ((<<>> \o <<>>) \o <<>>) \o <<>>
        BY <1>4, <1>6, <1>10 DEF Stream
    <2>2. <<>> \o <<>> = <<>>
        BY NothingAdded
    <2> QED BY <2>1, <2>2
<1>15. \A g \in Gates : gate[g].rcv = <<>> /\ put[g] = Stream(gate, g)
    BY <1>4, <1>10, <1>11, <1>12, <1>13, <1>14 DEF Gates, Same
<1>16. TypeOK
    <2>1. gate \in [Gates -> GateType] /\ \A g \in Gates : Len(gate[g].snd) <= Capacity
        BY <1>11 DEF GatesOK, GateOK
    <2>2. stable \in BOOLEAN /\ disconnected \in BOOLEAN /\ alive \in BOOLEAN
        BY DEF Init
    <2>3. /\ edge \in [Gates -> BOOLEAN] /\ mask \in [Gates -> SUBSET Events]
          /\ peer \in [Gates -> {"open", "fin", "rst"}] /\ got \in [Gates -> Seq(Units)]
        BY NothingAdded DEF Init
    <2> QED BY <2>1, <2>2, <2>3, <1>12 DEF TypeOK
<1> QED BY <1>4, <1>11, <1>15, <1>16

LEMMA GatesAreTyped ==
    ASSUME TypeOK, GatesOK(gate'), UNCHANGED <<edge, peer, put, got>>,
           stable' \in BOOLEAN, disconnected' \in BOOLEAN, alive' \in BOOLEAN,
           mask' \in [Gates -> SUBSET Events]
    PROVE  TypeOK'
BY DEF TypeOK, GatesOK, GateOK

(* Report and Take change one gate. *)
LEMMA OneGate ==
    ASSUME GatesOK(gate), NEW g \in Gates, NEW f, GateOK(f),
           gate' = [gate EXCEPT ![g] = f]
    PROVE  GatesOK(gate') /\ gate'[g] = f /\ \A h \in Gates : h # g => gate'[h] = gate[h]
<1>1. gate' \in [Gates -> GateType]
    BY DEF GatesOK, GateOK
<1>2. gate'[g] = f /\ \A h \in Gates : h # g => gate'[h] = gate[h]
    BY DEF GatesOK
<1> QED BY <1>1, <1>2 DEF GatesOK

LEMMA CallbackType == TypeOK /\ Callback => TypeOK'
<1> SUFFICES ASSUME TypeOK, Callback PROVE TypeOK'
    OBVIOUS
<1>1. GatesOK(gate)
    BY TypesAreOK
<1>2. {} \in SUBSET Events /\ mask \in [Gates -> SUBSET Events]
    BY DEF TypeOK
<1>3. stable \in BOOLEAN /\ disconnected \in BOOLEAN /\ alive \in BOOLEAN
    BY DEF TypeOK
<1>4. CASE OnFrom
    <2> DEFINE gone == disconnected \/ "rdhup" \in mask["from"]
    <2>1. GatesOK(AfterFrom) /\ GatesOK(Erased(AfterFrom))
        BY <1>1, AfterFromOK, ErasedOK
    <2>2. /\ disconnected' = gone /\ alive' = ~gone
          /\ gate' = IF gone THEN Erased(AfterFrom) ELSE AfterFrom
          /\ mask' = IF gone THEN [g \in Gates |-> {}] ELSE [mask EXCEPT !["from"] = {}]
          /\ UNCHANGED <<stable, edge, peer, put, got>>
        BY <1>4 DEF OnFrom, AfterFrom
    <2>3. GatesOK(gate')
        BY <2>1, <2>2
    <2>4. mask' \in [Gates -> SUBSET Events]
        BY <1>2, <2>2
    <2>5. gone \in BOOLEAN
        BY <1>3
    <2> HIDE DEF gone
    <2>6. disconnected' \in BOOLEAN /\ alive' \in BOOLEAN /\ stable' \in BOOLEAN
        BY <1>3, <2>2, <2>5
    <2> QED BY <2>2, <2>3, <2>4, <2>6, GatesAreTyped
<1>5. CASE OnFromError
    <2>1. GatesOK(gate')
        BY <1>1, <1>5, ErasedOK DEF OnFromError
    <2> QED BY <1>2, <1>3, <1>5, <2>1, GatesAreTyped DEF OnFromError
<1>6. CASE OnTo
    <2>1. GatesOK(AfterTo)
        BY <1>1, AfterToOK
    <2>2. gate' = AfterTo
        BY <1>6 DEF OnTo, AfterTo
    <2>3. GatesOK(gate')
        BY <2>1, <2>2
    <2>4. mask' \in [Gates -> SUBSET Events]
        BY <1>2, <1>6 DEF OnTo
    <2>5. disconnected' \in BOOLEAN /\ alive' \in BOOLEAN /\ stable' \in BOOLEAN
        BY <1>3, <1>6 DEF OnTo
    <2> QED BY <1>6, <2>3, <2>4, <2>5, GatesAreTyped DEF OnTo
<1>7. CASE OnToError
    <2>1. GatesOK(gate')
        BY <1>1, <1>7, ErasedOK DEF OnToError
    <2>2. mask' \in [Gates -> SUBSET Events]
        BY <1>2, <1>7 DEF OnToError
    <2>3. disconnected' \in BOOLEAN /\ alive' \in BOOLEAN /\ stable' \in BOOLEAN
        BY <1>3, <1>7 DEF OnToError
    <2> QED BY <1>7, <2>1, <2>2, <2>3, GatesAreTyped DEF OnToError
<1> QED BY <1>4, <1>5, <1>6, <1>7 DEF Callback

(* The gate after one unit of its output was taken, or one was received. *)
LEMMA TakeGate ==
    ASSUME TypeOK, NEW g \in Gates, Take(g)
    PROVE  /\ GatesOK(gate')
           /\ gate[g].snd \in Seq(Units) /\ gate[g].snd # <<>>
           /\ gate'[g].snd = Tail(gate[g].snd)
           /\ gate'[g].input = gate[g].input /\ gate'[g].output = gate[g].output
           /\ gate'[g].rcv = gate[g].rcv
           /\ (gate'[g].nospace => gate[g].nospace /\ Len(gate[g].snd) # 1)
           /\ (gate[g].nospace /\ ~gate'[g].nospace => edge'[g])
           /\ \A h \in Gates : h # g => gate'[h] = gate[h]
<1>1. GatesOK(gate) /\ gate[g] \in GateType /\ Len(gate[g].snd) <= Capacity
    BY DEF TypeOK, GatesOK, GateOK
<1>2. gate[g].snd \in Seq(Units) /\ gate[g].snd # <<>>
    BY <1>1 DEF Take, GateType
<1>3. /\ Tail(gate[g].snd) \in Seq(Units)
      /\ Len(Tail(gate[g].snd)) = Len(gate[g].snd) - 1
      /\ Len(gate[g].snd) \in Nat
    BY <1>2, HeadTailProperties, NoneIsEmpty
<1>4. PICK wakes \in BOOLEAN :
          /\ gate[g].nospace /\ Len(gate[g].snd) = 1 => wakes
          /\ gate' = [gate EXCEPT ![g].snd = Tail(@), ![g].nospace = @ /\ ~wakes]
          /\ edge' = [edge EXCEPT ![g] = @ \/ wakes]
    BY DEF Take
<1> DEFINE keeps == gate[g].nospace /\ ~wakes
           f == [gate[g] EXCEPT !.snd = Tail(gate[g].snd), !.nospace = keeps]
<1>5. keeps \in BOOLEAN
    BY <1>1
<1>6. gate' = [gate EXCEPT ![g] = f]
    BY <1>1, <1>4 DEF GatesOK
<1> HIDE DEF keeps
<1>7. /\ f \in GateType
      /\ f.snd = Tail(gate[g].snd) /\ f.nospace = keeps
      /\ f.input = gate[g].input /\ f.output = gate[g].output /\ f.rcv = gate[g].rcv
    BY <1>1, <1>3, <1>5 DEF GateType
<1> HIDE DEF f
<1>8. Capacity \in Nat
    BY TunnelAssumption
<1>9. GateOK(f)
    BY <1>1, <1>3, <1>7, <1>8 DEF GateOK
<1>10. GatesOK(gate') /\ gate'[g] = f /\ \A h \in Gates : h # g => gate'[h] = gate[h]
    BY <1>1, <1>6, <1>9, OneGate
<1>11. edge \in [Gates -> BOOLEAN]
    BY DEF TypeOK
<1>12. /\ gate'[g].nospace => gate[g].nospace /\ Len(gate[g].snd) # 1
       /\ gate[g].nospace /\ ~gate'[g].nospace => edge'[g]
    <2>1. wakes => edge'[g]
        BY <1>4, <1>11
    <2>2. gate'[g].nospace = (gate[g].nospace /\ ~wakes)
        BY <1>7, <1>10 DEF keeps
    <2> QED BY <2>1, <2>2, <1>4
<1> QED BY <1>2, <1>7, <1>10, <1>12

LEMMA ReportGate ==
    ASSUME TypeOK, NEW g \in Gates, Report(g)
    PROVE  /\ GatesOK(gate')
           /\ gate'[g].snd = gate[g].snd
           /\ gate'[g].input = gate[g].input /\ gate'[g].output = gate[g].output
           /\ gate'[g].rcv = gate[g].rcv
           /\ \A h \in Gates : h # g => gate'[h] = gate[h]
           /\ mask' \in [Gates -> SUBSET Events]
           /\ \A h \in Gates : h # g => mask'[h] = mask[h]
           /\ "in" \in mask'[g] <=> gate[g].rcv # <<>> \/ peer[g] # "open"
           /\ "rdhup" \in mask'[g] <=> peer[g] # "open"
           /\ gate'[g].nospace => gate[g].nospace \/ "out" \notin mask'[g]
           /\ gate'[g].nospace \/ "out" \in mask'[g]
           /\ gate[g].nospace => gate'[g].nospace
           /\ "out" \notin mask'[g] => gate[g].snd # <<>> /\ peer[g] # "rst"
<1>1. GatesOK(gate) /\ gate[g] \in GateType /\ Len(gate[g].snd) <= Capacity
    BY DEF TypeOK, GatesOK, GateOK
<1>2. PICK writable \in BOOLEAN :
          /\ WritableIf(g, writable)
          /\ mask' = [mask EXCEPT ![g] = EventMask(g, writable)]
          /\ gate' = [gate EXCEPT ![g].nospace = @ \/ ~writable]
    BY DEF Report
<1> DEFINE full == gate[g].nospace \/ ~writable
           f == [gate[g] EXCEPT !.nospace = full]
<1>3. full \in BOOLEAN
    BY <1>1
<1>4. gate' = [gate EXCEPT ![g] = f]
    BY <1>1, <1>2 DEF GatesOK
<1> HIDE DEF full
<1>5. /\ f \in GateType
      /\ f.snd = gate[g].snd /\ f.nospace = full
      /\ f.input = gate[g].input /\ f.output = gate[g].output /\ f.rcv = gate[g].rcv
    BY <1>1, <1>3 DEF GateType
<1> HIDE DEF f
<1>6. GatesOK(gate') /\ gate'[g] = f /\ \A h \in Gates : h # g => gate'[h] = gate[h]
    BY <1>1, <1>4, <1>5, OneGate DEF GateOK
<1>7. mask \in [Gates -> SUBSET Events] /\ EventMask(g, writable) \subseteq Events
    BY DEF TypeOK, EventMask
<1>8. /\ mask' \in [Gates -> SUBSET Events]
      /\ mask'[g] = EventMask(g, writable)
      /\ \A h \in Gates : h # g => mask'[h] = mask[h]
    BY <1>2, <1>7
<1>9. /\ "in" \in mask'[g] <=> gate[g].rcv # <<>> \/ peer[g] # "open"
      /\ "rdhup" \in mask'[g] <=> peer[g] # "open"
      /\ "out" \in mask'[g] <=> writable
    BY <1>8 DEF EventMask, Events
<1>10. gate'[g].nospace = (gate[g].nospace \/ ~writable)
    BY <1>5, <1>6 DEF full
<1>11. ~writable => gate[g].snd # <<>> /\ peer[g] # "rst"
    BY <1>2 DEF WritableIf
<1> QED BY <1>5, <1>6, <1>8, <1>9, <1>10, <1>11

LEMMA PutGate ==
    ASSUME TypeOK, NEW g \in Gates, Put(g)
    PROVE  LET unit == Len(put[g]) + 1
           IN /\ GatesOK(gate') /\ unit \in Units
              /\ gate'[g].rcv = Append(gate[g].rcv, unit)
              /\ gate'[g].snd = gate[g].snd /\ gate'[g].nospace = gate[g].nospace
              /\ gate'[g].input = gate[g].input /\ gate'[g].output = gate[g].output
              /\ gate[g].rcv \in Seq(Units)
              /\ \A h \in Gates : h # g => gate'[h] = gate[h]
              /\ put' \in [Gates -> Seq(Units)]
              /\ put'[g] = Append(put[g], unit)
              /\ \A h \in Gates : h # g => put'[h] = put[h]
<1> DEFINE unit == Len(put[g]) + 1
           f == [gate[g] EXCEPT !.rcv = Append(gate[g].rcv, unit)]
<1>1. /\ GatesOK(gate) /\ gate \in [Gates -> GateType] /\ gate[g] \in GateType
      /\ Len(gate[g].snd) <= Capacity
      /\ put \in [Gates -> Seq(Units)]
    BY DEF TypeOK, GatesOK, GateOK
<1>2. Len(put[g]) \in Nat /\ unit \in Units
    BY <1>1, NoneIsEmpty DEF Units
<1>3. gate' = [gate EXCEPT ![g] = f]
    BY <1>1 DEF Put
<1>4. put' = [put EXCEPT ![g] = Append(put[g], unit)]
    BY <1>1 DEF Put
<1> HIDE DEF unit
<1>5. gate[g].rcv \in Seq(Units) /\ Append(gate[g].rcv, unit) \in Seq(Units)
    BY <1>1, <1>2, AppendProperties DEF GateType
<1>6. Append(put[g], unit) \in Seq(Units)
    BY <1>1, <1>2, AppendProperties
<1>7. /\ f \in GateType
      /\ f.rcv = Append(gate[g].rcv, unit)
      /\ f.snd = gate[g].snd /\ f.nospace = gate[g].nospace
      /\ f.input = gate[g].input /\ f.output = gate[g].output
    BY <1>1, <1>5 DEF GateType
<1> HIDE DEF f
<1>8. GatesOK(gate') /\ gate'[g] = f /\ \A h \in Gates : h # g => gate'[h] = gate[h]
    BY <1>1, <1>3, <1>7, OneGate DEF GateOK
<1>9. /\ put' \in [Gates -> Seq(Units)]
      /\ put'[g] = Append(put[g], unit)
      /\ \A h \in Gates : h # g => put'[h] = put[h]
    BY <1>1, <1>4, <1>6
<1> QED BY <1>2, <1>5, <1>7, <1>8, <1>9 DEF unit

LEMMA TypeStep == TypeOK /\ [Next]_vars => TypeOK'
<1> SUFFICES ASSUME TypeOK, [Next]_vars PROVE TypeOK'
    OBVIOUS
<1>1. CASE Callback
    BY <1>1, CallbackType
<1>2. ASSUME NEW g \in Gates, Report(g) PROVE TypeOK'
    <2>1. GatesOK(gate') /\ mask' \in [Gates -> SUBSET Events]
        BY <1>2, ReportGate
    <2>2. edge' \in [Gates -> BOOLEAN] /\ UNCHANGED <<stable, disconnected, alive, peer, put, got>>
        BY <1>2 DEF Report, TypeOK
    <2> QED BY <2>1, <2>2 DEF TypeOK, GatesOK, GateOK
<1>3. ASSUME NEW g \in Gates, Take(g) PROVE TypeOK'
    <2>1. GatesOK(gate') /\ gate[g].snd \in Seq(Units) /\ gate[g].snd # <<>>
        BY <1>3, TakeGate
    <2>2. got \in [Gates -> Seq(Units)] /\ got[g] \in Seq(Units)
        BY DEF TypeOK
    <2>3. Append(got[g], Head(gate[g].snd)) \in Seq(Units)
        BY <2>1, <2>2, MoveHead
    <2>4. got' \in [Gates -> Seq(Units)]
        BY <1>3, <2>2, <2>3 DEF Take
    <2>5. edge' \in [Gates -> BOOLEAN]
        BY <1>3 DEF Take, TypeOK
    <2>6. UNCHANGED <<stable, disconnected, alive, mask, peer, put>>
        BY <1>3 DEF Take
    <2> QED BY <2>1, <2>4, <2>5, <2>6 DEF TypeOK, GatesOK, GateOK
<1>4. ASSUME NEW g \in Gates, Put(g) PROVE TypeOK'
    <2>1. GatesOK(gate') /\ put' \in [Gates -> Seq(Units)]
        BY <1>4, PutGate
    <2>2. edge' \in [Gates -> BOOLEAN] /\ UNCHANGED <<stable, disconnected, alive, mask, peer, got>>
        BY <1>4 DEF Put, TypeOK
    <2> QED BY <2>1, <2>2 DEF TypeOK, GatesOK, GateOK
<1>5. ASSUME NEW g \in Gates, NEW how \in {"fin", "rst"}, Leave(g, how) PROVE TypeOK'
    BY <1>5 DEF Leave, TypeOK
<1>6. CASE UNCHANGED vars
    BY <1>6 DEF vars, TypeOK
<1> QED BY <1>1, <1>2, <1>3, <1>4, <1>5, <1>6 DEF Next, Environment

(* Every reachable state is well typed, and no write overfills the kernel's *)
(* buffer (gate::send).                                                    *)
THEOREM TypeCorrect == Spec => []TypeOK
<1>1. Init => TypeOK
    BY InitOK
<1> QED BY <1>1, TypeStep, PTL DEF Spec

-----------------------------------------------------------------------------
(* The streams *)

(* Also of an erased portal: what has arrived, and what the kernel still     *)
(* sends, is a beginning of what was sent.                                   *)
Delivered ==
    \A g \in Gates : \E rest \in Seq(Units) :
        put[g] = got[Other(g)] \o (gate[Other(g)].snd \o rest)

StreamInv == Conserved /\ Delivered

LEMMA StreamParts ==
    ASSUME NEW gs, GatesOK(gs), NEW g \in Gates
    PROVE  \E rest \in Seq(Units) : Stream(gs, g) = gs[Other(g)].snd \o rest
<1> DEFINE a == gs[Other(g)].snd
           b == gs[Other(g)].output
           c == gs[g].input
           d == gs[g].rcv
<1>1. gs[g] \in GateType /\ gs[Other(g)] \in GateType
    BY Two DEF GatesOK
<1>2. a \in Seq(Units) /\ b \in Seq(Units) /\ c \in Seq(Units) /\ d \in Seq(Units)
    BY <1>1 DEF GateType
<1>3. Stream(gs, g) = ((a \o b) \o c) \o d
    BY DEF Stream
<1> HIDE DEF a, b, c, d
<1>4. b \o c \in Seq(Units) /\ (b \o c) \o d \in Seq(Units)
    BY <1>2, Closed
<1>5. ((a \o b) \o c) \o d = a \o ((b \o c) \o d)
    <2>1. (a \o b) \o c = a \o (b \o c)
        BY <1>2, Associative
    <2>2. (a \o (b \o c)) \o d = a \o ((b \o c) \o d)
        BY <1>2, <1>4, Associative
    <2> QED BY <2>1, <2>2
<1> QED BY <1>3, <1>4, <1>5 DEF a

(* Buffers that carry the same streams deliver the same. *)
LEMMA DeliveredBySame ==
    ASSUME TypeOK, Conserved, alive, NEW gs, GatesOK(gs), Same(gate, gs)
    PROVE  \A g \in Gates : \E rest \in Seq(Units) :
                put[g] = got[Other(g)] \o (gs[Other(g)].snd \o rest)
<1> TAKE g \in Gates
<1>1. put[g] = got[Other(g)] \o Stream(gs, g)
    BY DEF Conserved, Same
<1>2. PICK rest \in Seq(Units) : Stream(gs, g) = gs[Other(g)].snd \o rest
    BY StreamParts
<1> QED BY <1>1, <1>2

LEMMA StreamStep == TypeOK /\ StreamInv /\ [Next]_vars => StreamInv'
<1> SUFFICES ASSUME TypeOK, StreamInv, [Next]_vars PROVE StreamInv'
    OBVIOUS
<1>1. GatesOK(gate) /\ Conserved /\ Delivered
    BY TypesAreOK DEF StreamInv
<1>2. CASE Callback
    <2>1. alive /\ UNCHANGED <<peer, put, got>>
        BY <1>2 DEF Callback, OnFrom, OnFromError, OnTo, OnToError
    <2>2. PICK gs : /\ GatesOK(gs) /\ Same(gate, gs)
                    /\ \/ gate' = gs
                       \/ ~alive' /\ gate' = Erased(gs)
        <3>1. CASE OnFrom
            <4>1. GatesOK(AfterFrom) /\ Same(gate, AfterFrom)
                BY <1>1, AfterFromOK
            <4> QED BY <3>1, <4>1 DEF OnFrom, AfterFrom
        <3>2. CASE OnFromError
            BY <3>2, <1>1 DEF OnFromError, Same
        <3>3. CASE OnTo
            <4>1. GatesOK(AfterTo) /\ Same(gate, AfterTo)
                BY <1>1, AfterToOK
            <4> QED BY <3>3, <4>1 DEF OnTo, AfterTo
        <3>4. CASE OnToError
            BY <3>4, <1>1 DEF OnToError, Same
        <3> QED BY <1>2, <3>1, <3>2, <3>3, <3>4 DEF Callback
    <2>3. \A g \in Gates : gate'[g].snd = gs[g].snd
        BY <2>2, ErasedOK
    <2>4. \A g \in Gates : \E rest \in Seq(Units) :
                put[g] = got[Other(g)] \o (gs[Other(g)].snd \o rest)
        BY <1>1, <2>1, <2>2, DeliveredBySame
    <2>5. Delivered'
        BY <2>1, <2>3, <2>4, Two DEF Delivered
    <2>6. Conserved'
        <3> SUFFICES ASSUME alive', NEW g \in Gates
                     PROVE  put'[g] = got'[Other(g)] \o Stream(gate', g)
            BY DEF Conserved, Stream
        <3>1. gate' = gs
            BY <2>2
        <3>2. put[g] = got[Other(g)] \o Stream(gs, g)
            BY <1>1, <2>1, <2>2 DEF Conserved, Same
        <3> QED BY <2>1, <3>1, <3>2
    <2> QED BY <2>5, <2>6 DEF StreamInv
<1>3. ASSUME NEW g \in Gates, Report(g) PROVE StreamInv'
    <2>1. /\ gate'[g].snd = gate[g].snd /\ gate'[g].output = gate[g].output
          /\ gate'[g].input = gate[g].input /\ gate'[g].rcv = gate[g].rcv
          /\ \A h \in Gates : h # g => gate'[h] = gate[h]
        BY <1>3, ReportGate
    <2>2. UNCHANGED <<alive, put, got>>
        BY <1>3 DEF Report
    <2>3. \A h \in Gates : /\ gate'[h].snd = gate[h].snd /\ gate'[h].output = gate[h].output
                           /\ gate'[h].input = gate[h].input /\ gate'[h].rcv = gate[h].rcv
        BY <2>1
    <2>4. Conserved'
        BY <1>1, <2>2, <2>3, Two DEF Conserved, Stream
    <2>5. Delivered'
        BY <1>1, <2>2, <2>3, Two DEF Delivered
    <2> QED BY <2>4, <2>5 DEF StreamInv
<1>4. ASSUME NEW g \in Gates, Take(g) PROVE StreamInv'
    <2> DEFINE o == Other(g)
               snd == gate[g].snd
    <2>1. /\ snd \in Seq(Units) /\ snd # <<>>
          /\ gate'[g].snd = Tail(snd)
          /\ gate'[g].input = gate[g].input /\ gate'[g].output = gate[g].output
          /\ gate'[g].rcv = gate[g].rcv
          /\ \A h \in Gates : h # g => gate'[h] = gate[h]
        BY <1>4, TakeGate
    <2>2. /\ got \in [Gates -> Seq(Units)] /\ put \in [Gates -> Seq(Units)]
          /\ UNCHANGED <<alive, put>> /\ got' = [got EXCEPT ![g] = Append(got[g], Head(snd))]
        BY <1>4 DEF Take, TypeOK
    <2>3. /\ o \in Gates /\ o # g /\ Other(o) = g
          /\ \A h \in Gates : h = g \/ h = o
        BY Two DEF Gates
    <2> HIDE DEF snd, o
    <2>4. /\ got'[g] = Append(got[g], Head(snd)) /\ got'[o] = got[o]
          /\ got[g] \in Seq(Units) /\ got'[g] \in Seq(Units)
          /\ Tail(snd) \in Seq(Units)
          /\ got'[g] \o Tail(snd) = got[g] \o snd
        BY <2>1, <2>2, <2>3, MoveHead
    <2>5. ASSUME NEW r \in Seq(Units)
          PROVE  got[g] \o (snd \o r) = got'[g] \o (Tail(snd) \o r)
        <3>1. got[g] \o (snd \o r) = (got[g] \o snd) \o r
            BY <2>1, <2>4, Associative
        <3>2. got'[g] \o (Tail(snd) \o r) = (got'[g] \o Tail(snd)) \o r
            BY <2>4, Associative
        <3> QED BY <2>4, <3>1, <3>2
    <2>6. ASSUME NEW r \in Seq(Units), put[o] = got[g] \o (gate[g].snd \o r)
          PROVE  put'[o] = got'[g] \o (gate'[g].snd \o r)
        BY <2>1, <2>2, <2>5, <2>6 DEF snd
    <2>7. gate'[o] = gate[o] /\ put'[g] = put[g] /\ put'[o] = put[o]
        BY <2>1, <2>2, <2>3
    <2>8. Delivered'
        <3>1. \E r \in Seq(Units) : put'[o] = got'[g] \o (gate'[g].snd \o r)
            BY <1>1, <2>3, <2>6 DEF Delivered
        <3>2. \E r \in Seq(Units) : put'[g] = got'[o] \o (gate'[o].snd \o r)
            <4>1. PICK r \in Seq(Units) : put[g] = got[Other(g)] \o (gate[Other(g)].snd \o r)
                BY <1>1 DEF Delivered
            <4> QED BY <4>1, <2>4, <2>7 DEF o
        <3> QED BY <3>1, <3>2, <2>3 DEF Delivered, o
    <2>9. Conserved'
        <3> SUFFICES ASSUME alive'
                     PROVE  \A h \in Gates : put'[h] = got'[Other(h)] \o Stream(gate', h)
            BY DEF Conserved, Stream
        <3>1. alive
            BY <2>2
        <3> DEFINE b == gate[g].output
                   c == gate[o].input
                   d == gate[o].rcv
        <3>2. /\ gate[g] \in GateType /\ gate[o] \in GateType
            BY <1>1, <2>3 DEF GatesOK
        <3>3. b \in Seq(Units) /\ c \in Seq(Units) /\ d \in Seq(Units)
            BY <3>2 DEF GateType
        <3>4. Stream(gate, o) = ((snd \o b) \o c) \o d
            BY <2>3 DEF Stream, snd
        <3>5. Stream(gate', o) = ((Tail(snd) \o b) \o c) \o d
            BY <2>1, <2>3, <2>7 DEF Stream
        <3> HIDE DEF b, c, d
        <3>6. b \o c \in Seq(Units) /\ (b \o c) \o d \in Seq(Units)
            BY <3>3, Closed
        <3>7. ASSUME NEW x \in Seq(Units)
              PROVE  ((x \o b) \o c) \o d = x \o ((b \o c) \o d)
            <4>1. (x \o b) \o c = x \o (b \o c)
                BY <3>3, Associative
            <4>2. (x \o (b \o c)) \o d = x \o ((b \o c) \o d)
                BY <3>3, <3>6, Associative
            <4> QED BY <4>1, <4>2
        <3>8. put[o] = got[g] \o (snd \o ((b \o c) \o d))
            BY <1>1, <2>1, <2>3, <3>1, <3>4, <3>7 DEF Conserved
        <3>9. put'[o] = got'[g] \o Stream(gate', o)
            BY <2>4, <2>5, <2>7, <3>5, <3>6, <3>7, <3>8
        <3>10. put'[g] = got'[o] \o Stream(gate', g)
            <4>1. Stream(gate', g) = Stream(gate, g)
                BY <2>1, <2>7 DEF Stream, o
            <4>2. put[g] = got[o] \o Stream(gate, g)
                BY <1>1, <3>1 DEF Conserved, o
            <4> QED BY <4>1, <4>2, <2>4, <2>7
        <3> QED BY <2>3, <3>9, <3>10 DEF o
    <2> QED BY <2>8, <2>9 DEF StreamInv
<1>5. ASSUME NEW g \in Gates, Put(g) PROVE StreamInv'
    <2> DEFINE unit == Len(put[g]) + 1
    <2>1. /\ GatesOK(gate') /\ unit \in Units
          /\ gate'[g].rcv = Append(gate[g].rcv, unit)
          /\ gate'[g].snd = gate[g].snd
          /\ gate'[g].input = gate[g].input /\ gate'[g].output = gate[g].output
          /\ gate[g].rcv \in Seq(Units)
          /\ \A h \in Gates : h # g => gate'[h] = gate[h]
          /\ put' \in [Gates -> Seq(Units)]
          /\ put'[g] = Append(put[g], unit)
          /\ \A h \in Gates : h # g => put'[h] = put[h]
        BY <1>5, PutGate
    <2>2. alive /\ UNCHANGED <<alive, got>> /\ got \in [Gates -> Seq(Units)]
        BY <1>5 DEF Put, TypeOK
    <2> HIDE DEF unit
    <2>3. Conserved'
        <3> SUFFICES ASSUME NEW h \in Gates
                     PROVE  put'[h] = got'[Other(h)] \o Stream(gate', h)
            BY DEF Conserved, Stream
        <3>1. put[h] = got[Other(h)] \o Stream(gate, h)
            BY <1>1, <2>2 DEF Conserved
        <3>2. CASE h # g
            <4>1. Stream(gate', h) = Stream(gate, h)
                BY <3>2, <2>1, Two DEF Stream, Gates, Other
            <4> QED BY <3>1, <3>2, <4>1, <2>1, <2>2
        <3>3. CASE h = g
            <4> DEFINE way == (gate[Other(g)].snd \o gate[Other(g)].output) \o gate[g].input
                       one == <<unit>>
                       past == got[Other(g)]
            <4>1. gate[Other(g)] \in GateType /\ gate[g] \in GateType /\ past \in Seq(Units)
                BY <1>1, <2>2, Two DEF GatesOK
            <4>2. way \in Seq(Units) /\ one \in Seq(Units)
                BY <4>1, <2>1, Closed DEF GateType
            <4>3. Stream(gate, g) = way \o gate[g].rcv
                BY DEF Stream
            <4>4. Stream(gate', g) = way \o gate'[g].rcv
                BY <2>1, Two DEF Stream
            <4> HIDE DEF way, past
            <4>5. /\ gate'[g].rcv = gate[g].rcv \o one
                  /\ put'[g] = put[g] \o one
                <5>1. put[g] \in Seq(Units)
                    BY DEF TypeOK
                <5> QED BY <5>1, <2>1, AppendIsConcat
            <4> HIDE DEF one
            <4> DEFINE rcv == gate[g].rcv
            <4>6. rcv \in Seq(Units) /\ gate'[g].rcv = rcv \o one
                BY <2>1, <4>5
            <4> HIDE DEF rcv
            <4>7. way \o (rcv \o one) = (way \o rcv) \o one /\ way \o rcv \in Seq(Units)
                BY <4>2, <4>6, Closed, Associative
            <4>8. past \o ((way \o rcv) \o one) = (past \o (way \o rcv)) \o one
                BY <4>1, <4>2, <4>7, Associative
            <4> QED BY <3>1, <3>3, <4>3, <4>4, <4>5, <4>6, <4>7, <4>8, <2>2 DEF past, rcv
        <3> QED BY <3>2, <3>3
    <2>4. Delivered'
        <3> SUFFICES ASSUME NEW h \in Gates
                     PROVE  \E rest \in Seq(Units) :
                                put'[h] = got'[Other(h)] \o (gate'[Other(h)].snd \o rest)
            BY DEF Delivered
        <3>1. PICK rest \in Seq(Units) : Stream(gate', h) = gate'[Other(h)].snd \o rest
            BY <2>1, StreamParts
        <3>2. put'[h] = got'[Other(h)] \o Stream(gate', h)
            BY <2>2, <2>3 DEF Conserved, Stream
        <3> QED BY <3>1, <3>2
    <2> QED BY <2>3, <2>4 DEF StreamInv
<1>6. CASE (\E g \in Gates, how \in {"fin", "rst"} : Leave(g, how)) \/ UNCHANGED vars
    <2>1. UNCHANGED <<gate, alive, put, got>>
        BY <1>6 DEF Leave, vars
    <2>2. Conserved' /\ Delivered'
        BY <1>1, <2>1 DEF Conserved, Delivered, Stream
    <2> QED BY <2>2 DEF StreamInv
<1> QED BY <1>2, <1>3, <1>4, <1>5, <1>6 DEF Next, Environment

LEMMA StreamInit == Init => StreamInv
<1> SUFFICES ASSUME Init PROVE StreamInv
    OBVIOUS
<1>1. TypeOK /\ \A g \in Gates : put[g] = Stream(gate, g)
    BY InitOK
<1>2. \A g \in Gates : got[g] = <<>> /\ put[g] \in Seq(Units)
    BY <1>1 DEF Init, TypeOK
<1>3. Conserved
    BY <1>1, <1>2, Two, NothingAdded DEF Conserved
<1>4. alive /\ GatesOK(gate) /\ Same(gate, gate)
    BY <1>1, TypesAreOK DEF Init, Same
<1>5. Delivered
    BY <1>1, <1>3, <1>4, DeliveredBySame DEF Delivered
<1> QED BY <1>3, <1>5 DEF StreamInv

(* Nothing is lost, doubled or overtaken in the buffers of a tunnel, however *)
(* the writes are cut (gate::send, gate::tunnel, gate::receive).             *)
THEOREM StreamsConserved == Spec => []Conserved
<1>1. StreamInv => Conserved
    BY DEF StreamInv
<1>2. Init => TypeOK
    BY InitOK
<1> QED BY <1>1, <1>2, StreamInit, TypeStep, StreamStep, PTL DEF Spec

-----------------------------------------------------------------------------
(* Nobody waits *)

(* An error is reported of a connection that was reset only, and that is    *)
(* final.                                                                   *)
ErrorIsReset == \A g \in Gates : "err" \in mask[g] => peer[g] = "rst"

(* The parts of NobodyWaits for one gate. *)
Readable(g) == gate[g].rcv # <<>> => edge[g] \/ "in" \in mask[g] \/ peer[g] = "rst"
Noticed(g) == peer[g] # "open" /\ ~disconnected => edge[g] \/ "rdhup" \in mask[g]
HasRoom(g) == gate[g].nospace => gate[g].snd # <<>> \/ peer[g] = "rst"
Writable(g) ==
    gate[g].output # <<>> => gate[g].nospace \/ edge[g] \/ "out" \in mask[g] \/ peer[g] = "rst"
Inputs == gate["to"].input = <<>> /\ (stable => gate["from"].input = <<>>)

Awake(g) == Readable(g) /\ Noticed(g) /\ HasRoom(g) /\ Writable(g)

LEMMA NobodyWaitsIs == NobodyWaits <=> (alive => Inputs /\ \A g \in Gates : Awake(g))
BY DEF NobodyWaits, Inputs, Awake, Readable, Noticed, HasRoom, Writable

LEMMA NobodyWaitsWillBe ==
    NobodyWaits' <=> (alive' => Inputs' /\ \A g \in Gates : Awake(g)')
BY DEF NobodyWaits, Inputs, Awake, Readable, Noticed, HasRoom, Writable

LEMMA ErrorStep == TypeOK /\ ErrorIsReset /\ [Next]_vars => ErrorIsReset'
<1> SUFFICES ASSUME TypeOK, ErrorIsReset, [Next]_vars PROVE ErrorIsReset'
    OBVIOUS
<1>1. mask \in [Gates -> SUBSET Events] /\ peer \in [Gates -> {"open", "fin", "rst"}]
    BY DEF TypeOK
<1>2. CASE Callback
    BY <1>1, <1>2 DEF Callback, OnFrom, OnFromError, OnTo, OnToError, ErrorIsReset
<1>3. ASSUME NEW g \in Gates, Report(g) PROVE ErrorIsReset'
    <2>1. PICK writable \in BOOLEAN : mask' = [mask EXCEPT ![g] = EventMask(g, writable)]
        BY <1>3 DEF Report
    <2>2. peer' = peer
        BY <1>3 DEF Report
    <2>3. "err" \in EventMask(g, writable) => peer[g] = "rst"
        BY DEF EventMask
    <2> QED BY <1>1, <2>1, <2>2, <2>3 DEF ErrorIsReset
<1>4. CASE (\E g \in Gates : Take(g) \/ Put(g)) \/ UNCHANGED vars
    BY <1>4 DEF Take, Put, vars, ErrorIsReset
<1>5. ASSUME NEW g \in Gates, NEW how \in {"fin", "rst"}, Leave(g, how) PROVE ErrorIsReset'
    BY <1>1, <1>5 DEF Leave, ErrorIsReset
<1> QED BY <1>2, <1>3, <1>4, <1>5 DEF Next, Environment

(* After the callback of the client's socket. *)
LEMMA AwakeAfterFrom ==
    ASSUME TypeOK, NobodyWaits, OnFrom, alive'
    PROVE  Inputs' /\ \A g \in Gates : Awake(g)'
<1>1. GatesOK(gate) /\ alive /\ Inputs /\ (\A g \in Gates : Awake(g))
    BY TypesAreOK, NobodyWaitsIs DEF OnFrom
<1> DEFINE s == AfterFrom
<1>2. /\ GatesOK(s) /\ (Room(gate) => Room(s))
      /\ s["to"].input = gate["to"].input /\ s["to"].rcv = gate["to"].rcv
      /\ s["from"].input \in {<<>>, gate["from"].input}
      /\ s["from"].rcv = IF "in" \in mask["from"] THEN <<>> ELSE gate["from"].rcv
      /\ Sent(gate, s, "to")
      /\ IF "out" \in mask["from"] THEN Waits(s, "from") ELSE AsBefore(gate, s, "from")
    BY <1>1, AfterFromOK
<1>3. /\ gate' = s /\ mask' = [mask EXCEPT !["from"] = {}]
      /\ ~disconnected /\ ~disconnected' /\ "rdhup" \notin mask["from"]
      /\ UNCHANGED <<stable, edge, peer>>
    BY DEF OnFrom, AfterFrom
<1> HIDE DEF s
<1>4. mask'["from"] = {} /\ mask'["to"] = mask["to"] /\ "from" \in Gates /\ "to" \in Gates
    BY <1>3 DEF TypeOK, Gates
<1>5. Inputs'
    BY <1>1, <1>2, <1>3 DEF Inputs
<1>6. \A g \in Gates : HasRoom(g)'
    BY <1>1, <1>2, <1>3 DEF Room, HasRoom, Awake
<1>7. Awake("from")'
    <2>1. Readable("from")'
        BY <1>1, <1>2, <1>3, <1>4 DEF Readable, Awake
    <2>2. Noticed("from")'
        BY <1>1, <1>3, <1>4 DEF Noticed, Awake
    <2>3. Writable("from")'
        BY <1>1, <1>2, <1>3, <1>4 DEF Writable, Awake, Waits, AsBefore
    <2> QED BY <2>1, <2>2, <2>3, <1>4, <1>6 DEF Awake
<1>8. Awake("to")'
    <2>1. Readable("to")' /\ Noticed("to")'
        BY <1>1, <1>2, <1>3, <1>4 DEF Readable, Noticed, Awake
    <2>2. Writable("to")'
        BY <1>1, <1>2, <1>3, <1>4 DEF Writable, Awake, Sent, Waits, AsBefore
    <2> QED BY <2>1, <2>2, <1>4, <1>6 DEF Awake
<1> QED BY <1>5, <1>7, <1>8 DEF Gates

(* After the callback of the backend's socket. *)
LEMMA AwakeAfterTo ==
    ASSUME TypeOK, NobodyWaits, OnTo
    PROVE  Inputs' /\ \A g \in Gates : Awake(g)'
<1>1. GatesOK(gate) /\ alive /\ Inputs /\ (\A g \in Gates : Awake(g))
    BY TypesAreOK, NobodyWaitsIs DEF OnTo
<1> DEFINE s == AfterTo
<1>2. /\ GatesOK(s) /\ (Room(gate) => Room(s))
      /\ s["to"].input \in {<<>>, gate["to"].input}
      /\ s["from"].rcv = gate["from"].rcv
      /\ s["to"].rcv = IF "in" \in mask["to"] THEN <<>> ELSE gate["to"].rcv
      /\ Sent(gate, s, "from")
      /\ IF "out" \in mask["to"]
         THEN Waits(s, "to") /\ s["from"].input = <<>>
         ELSE AsBefore(gate, s, "to") /\ s["from"].input = gate["from"].input
    BY <1>1, AfterToOK
<1>3. /\ gate' = s /\ mask' = [mask EXCEPT !["to"] = {}]
      /\ disconnected' = (disconnected \/ "rdhup" \in mask["to"])
      /\ stable' = (stable \/ "out" \in mask["to"])
      /\ UNCHANGED <<edge, peer>>
    BY DEF OnTo, AfterTo
<1> HIDE DEF s
<1>4. mask'["to"] = {} /\ mask'["from"] = mask["from"] /\ "from" \in Gates /\ "to" \in Gates
    BY <1>3 DEF TypeOK, Gates
<1>5. Inputs'
    BY <1>1, <1>2, <1>3 DEF Inputs
<1>6. \A g \in Gates : HasRoom(g)'
    BY <1>1, <1>2, <1>3 DEF Room, HasRoom, Awake
<1>7. Awake("to")'
    <2>1. Readable("to")'
        BY <1>1, <1>2, <1>3, <1>4 DEF Readable, Awake
    <2>2. Noticed("to")'
        BY <1>1, <1>3, <1>4 DEF Noticed, Awake
    <2>3. Writable("to")'
        BY <1>1, <1>2, <1>3, <1>4 DEF Writable, Awake, Waits, AsBefore
    <2> QED BY <2>1, <2>2, <2>3, <1>4, <1>6 DEF Awake
<1>8. Awake("from")'
    <2>1. Readable("from")' /\ Noticed("from")'
        BY <1>1, <1>2, <1>3, <1>4 DEF Readable, Noticed, Awake
    <2>2. Writable("from")'
        BY <1>1, <1>2, <1>3, <1>4 DEF Writable, Awake, Sent, Waits, AsBefore
    <2> QED BY <2>1, <2>2, <1>4, <1>6 DEF Awake
<1> QED BY <1>5, <1>7, <1>8 DEF Gates

(* After an error of the backend's socket that leaves a stable tunnel. *)
LEMMA AwakeAfterError ==
    ASSUME TypeOK, NobodyWaits, ErrorIsReset, OnToError, alive'
    PROVE  Inputs' /\ \A g \in Gates : Awake(g)'
<1>1. alive /\ Inputs /\ (\A g \in Gates : Awake(g))
    BY NobodyWaitsIs DEF OnToError
<1>2. /\ UNCHANGED <<gate, stable, edge, peer>>
      /\ mask' = [mask EXCEPT !["to"] = {}] /\ disconnected' = TRUE
      /\ peer["to"] = "rst"
    BY DEF OnToError, ErrorIsReset, Gates
<1>3. \A g \in Gates : g # "to" => mask'[g] = mask[g]
    BY <1>2 DEF TypeOK
<1>4. Inputs'
    BY <1>1, <1>2 DEF Inputs
<1>5. ASSUME NEW g \in Gates PROVE Awake(g)'
    BY <1>1, <1>2, <1>3 DEF Awake, Readable, Noticed, HasRoom, Writable
<1> QED BY <1>4, <1>5

LEMMA WaitsStep == TypeOK /\ ErrorIsReset /\ NobodyWaits /\ [Next]_vars => NobodyWaits'
<1> SUFFICES ASSUME TypeOK, ErrorIsReset, NobodyWaits, [Next]_vars, alive'
             PROVE  Inputs' /\ \A g \in Gates : Awake(g)'
    BY NobodyWaitsWillBe
<1> USE DEF Awake
<1>1. CASE Callback
    <2>1. CASE OnFromError
        BY <2>1 DEF OnFromError
    <2> QED BY <1>1, <2>1, AwakeAfterFrom, AwakeAfterTo, AwakeAfterError DEF Callback
<1>2. ASSUME alive PROVE Inputs /\ \A g \in Gates : Awake(g)
    BY <1>2, NobodyWaitsIs
<1>3. "from" \in Gates /\ "to" \in Gates /\ TypeOK
    BY DEF Gates
<1>4. ASSUME NEW g \in Gates, Report(g) PROVE Inputs' /\ \A h \in Gates : Awake(h)'
    <2>1. /\ gate'[g].snd = gate[g].snd
          /\ gate'[g].input = gate[g].input /\ gate'[g].output = gate[g].output
          /\ gate'[g].rcv = gate[g].rcv
          /\ \A h \in Gates : h # g => gate'[h] = gate[h]
          /\ \A h \in Gates : h # g => mask'[h] = mask[h]
          /\ "in" \in mask'[g] <=> gate[g].rcv # <<>> \/ peer[g] # "open"
          /\ "rdhup" \in mask'[g] <=> peer[g] # "open"
          /\ gate'[g].nospace => gate[g].nospace \/ "out" \notin mask'[g]
          /\ gate'[g].nospace \/ "out" \in mask'[g]
          /\ "out" \notin mask'[g] => gate[g].snd # <<>> /\ peer[g] # "rst"
        BY <1>4, ReportGate
    <2>2. alive /\ UNCHANGED <<stable, disconnected, peer>> /\ edge' = [edge EXCEPT ![g] = FALSE]
        BY <1>4 DEF Report
    <2>3. \A h \in Gates : h # g => edge'[h] = edge[h]
        BY <2>2 DEF TypeOK
    <2>4. Inputs'
        BY <1>2, <1>3, <2>1, <2>2 DEF Inputs
    <2>5. ASSUME NEW h \in Gates, h # g PROVE Awake(h)'
        BY <1>2, <2>1, <2>2, <2>3, <2>5 DEF Readable, Noticed, HasRoom, Writable
    <2>6. Awake(g)'
        <3>1. Readable(g)' /\ Noticed(g)' /\ Writable(g)'
            BY <2>1, <2>2 DEF Readable, Noticed, Writable
        <3>2. HasRoom(g)'
            BY <1>2, <2>1, <2>2 DEF HasRoom
        <3> QED BY <3>1, <3>2
    <2> QED BY <2>4, <2>5, <2>6
<1>5. ASSUME NEW g \in Gates, Take(g) PROVE Inputs' /\ \A h \in Gates : Awake(h)'
    <2>1. /\ gate[g].snd \in Seq(Units) /\ gate[g].snd # <<>>
          /\ gate'[g].snd = Tail(gate[g].snd)
          /\ gate'[g].input = gate[g].input /\ gate'[g].output = gate[g].output
          /\ gate'[g].rcv = gate[g].rcv
          /\ (gate'[g].nospace => gate[g].nospace /\ Len(gate[g].snd) # 1)
          /\ (gate[g].nospace /\ ~gate'[g].nospace => edge'[g])
          /\ \A h \in Gates : h # g => gate'[h] = gate[h]
        BY <1>5, TakeGate
    <2>2. alive /\ UNCHANGED <<stable, disconnected, mask, peer>>
        BY <1>5 DEF Take
    <2>3. PICK wakes \in BOOLEAN : edge' = [edge EXCEPT ![g] = @ \/ wakes]
        BY <1>5 DEF Take
    <2>4. \A h \in Gates : (edge[h] => edge'[h]) /\ (h # g => edge'[h] = edge[h])
        BY <2>3 DEF TypeOK
    <2>5. gate'[g].nospace => gate'[g].snd # <<>>
        <3>1. /\ Tail(gate[g].snd) \in Seq(Units)
              /\ Len(Tail(gate[g].snd)) = Len(gate[g].snd) - 1 /\ Len(gate[g].snd) \in Nat
            BY <2>1, HeadTailProperties, NoneIsEmpty
        <3>2. Len(gate[g].snd) # 0
            BY <2>1, NoneIsEmpty
        <3>3. Len(gate[g].snd) # 1 => Len(Tail(gate[g].snd)) # 0
            BY <3>1, <3>2
        <3> QED BY <2>1, <3>1, <3>3, NoneIsEmpty
    <2>6. Inputs'
        BY <1>2, <1>3, <2>1, <2>2 DEF Inputs
    <2>7. ASSUME NEW h \in Gates, h # g PROVE Awake(h)'
        BY <1>2, <2>1, <2>2, <2>4, <2>7 DEF Readable, Noticed, HasRoom, Writable
    <2>8. Awake(g)'
        <3>1. Readable(g)' /\ Noticed(g)'
            BY <1>2, <2>1, <2>2, <2>4 DEF Readable, Noticed
        <3>2. Writable(g)' /\ HasRoom(g)'
            BY <1>2, <2>1, <2>2, <2>4, <2>5 DEF Writable, HasRoom
        <3> QED BY <3>1, <3>2
    <2> QED BY <2>6, <2>7, <2>8
<1>6. ASSUME NEW g \in Gates, Put(g) PROVE Inputs' /\ \A h \in Gates : Awake(h)'
    <2>1. /\ gate'[g].snd = gate[g].snd /\ gate'[g].nospace = gate[g].nospace
          /\ gate'[g].input = gate[g].input /\ gate'[g].output = gate[g].output
          /\ \A h \in Gates : h # g => gate'[h] = gate[h]
        BY <1>6, PutGate
    <2>2. alive /\ UNCHANGED <<stable, disconnected, mask, peer>> /\ edge' = [edge EXCEPT ![g] = TRUE]
        BY <1>6 DEF Put
    <2>3. edge'[g] /\ \A h \in Gates : h # g => edge'[h] = edge[h]
        BY <2>2 DEF TypeOK
    <2>4. Inputs'
        BY <1>2, <1>3, <2>1, <2>2 DEF Inputs
    <2>5. ASSUME NEW h \in Gates PROVE Awake(h)'
        BY <1>2, <2>1, <2>2, <2>3 DEF Readable, Noticed, HasRoom, Writable
    <2> QED BY <2>4, <2>5
<1>7. ASSUME NEW g \in Gates, NEW how \in {"fin", "rst"}, Leave(g, how)
      PROVE  Inputs' /\ \A h \in Gates : Awake(h)'
    <2>1. /\ alive /\ UNCHANGED <<gate, stable, disconnected, mask>>
          /\ edge' = [edge EXCEPT ![g] = TRUE] /\ peer' = [peer EXCEPT ![g] = how]
          /\ peer[g] # "rst"
        BY <1>7 DEF Leave
    <2>2. edge'[g] /\ \A h \in Gates : h # g => edge'[h] = edge[h] /\ peer'[h] = peer[h]
        BY <2>1 DEF TypeOK
    <2>3. Inputs'
        BY <1>2, <2>1 DEF Inputs
    <2>4. ASSUME NEW h \in Gates PROVE Awake(h)'
        BY <1>2, <2>1, <2>2 DEF Readable, Noticed, HasRoom, Writable
    <2> QED BY <2>3, <2>4
<1>8. CASE UNCHANGED vars
    BY <1>2, <1>8 DEF vars, Inputs, Readable, Noticed, HasRoom, Writable
<1> QED BY <1>1, <1>4, <1>5, <1>6, <1>7, <1>8 DEF Next, Environment

LEMMA WaitsInit == Init => NobodyWaits /\ ErrorIsReset
<1> SUFFICES ASSUME Init PROVE NobodyWaits /\ ErrorIsReset
    OBVIOUS
<1>1. /\ TypeOK /\ Room(gate) /\ Waits(gate, "to") /\ gate["to"].input = <<>>
      /\ gate["from"].output = <<>> /\ (\A g \in Gates : gate[g].rcv = <<>>)
    BY InitOK
<1>2. stable => gate["from"].input = <<>>
    BY DEF Init
<1>3. \A g \in Gates : peer[g] = "open" /\ mask[g] = {}
    BY DEF Init
<1> QED BY <1>1, <1>2, <1>3 DEF NobodyWaits, ErrorIsReset, Room, Waits, Gates

(* No data is left in a buffer with no event to come that takes it on, for    *)
(* any size of the kernel's buffers (gate::send, and the handlers of the     *)
(* edge-triggered events).                                                  *)
THEOREM NobodyWaitsInVain == Spec => []NobodyWaits
<1>1. Init => TypeOK
    BY InitOK
<1> QED BY <1>1, WaitsInit, TypeStep, ErrorStep, WaitsStep, PTL DEF Spec

-----------------------------------------------------------------------------
(* The refinement *)

UpInit == Up!Init
UpNext == [Up!Next]_(Up!vars)
DownInit == Down!Init
DownNext == [Down!Next]_(Down!vars)

LEMMA PipesInit == Init => UpInit /\ DownInit
BY DEF Init, Gates, Ended, UpInit, DownInit, Up!Init, Down!Init

(* A peer takes the next unit of what the other has sent. *)
LEMMA TakesNext ==
    ASSUME TypeOK, StreamInv, NEW g \in Gates, Take(g)
    PROVE  LET o == Other(g)
           IN /\ Len(got[g]) < Len(put[o])
              /\ got'[g] = Append(got[g], put[o][Len(got[g]) + 1])
              /\ \A h \in Gates : h # g => got'[h] = got[h]
              /\ put' = put
<1> DEFINE o == Other(g)
           snd == gate[g].snd
<1>1. snd \in Seq(Units) /\ snd # <<>>
    BY TakeGate
<1>2. o \in Gates /\ Other(o) = g
    BY Two
<1>3. got \in [Gates -> Seq(Units)] /\ got[g] \in Seq(Units)
    BY DEF TypeOK
<1>4. got' = [got EXCEPT ![g] = Append(got[g], Head(snd))] /\ put' = put
    BY <1>3 DEF Take
<1> HIDE DEF o, snd
<1>5. PICK rest \in Seq(Units) : put[o] = got[g] \o (gate[g].snd \o rest)
    BY <1>2 DEF StreamInv, Delivered
<1> DEFINE b == snd \o rest
<1>6. b \in Seq(Units) /\ b # <<>> /\ Head(b) = Head(snd)
    <2>1. b \in Seq(Units) /\ Len(b) = Len(snd) + Len(rest) /\ Len(snd) \in Nat /\ Len(rest) \in Nat
        BY <1>1, ConcatProperties, NoneIsEmpty
    <2>2. Len(snd) # 0 /\ b # <<>>
        BY <1>1, <2>1, NoneIsEmpty
    <2>3. b[1] = snd[1]
        BY <1>1, <2>1, <2>2, ConcatProperties
    <2>4. Head(b) = b[1] /\ Head(snd) = snd[1]
        BY <1>1, <2>1, <2>2, HeadTailProperties
    <2> QED BY <2>1, <2>2, <2>3, <2>4
<1>7. put[o] = got[g] \o b
    BY <1>5 DEF snd
<1> HIDE DEF b
<1>8. Len(got[g]) < Len(put[o]) /\ put[o][Len(got[g]) + 1] = Head(b)
    BY <1>3, <1>6, <1>7, NextUnit
<1>9. got'[g] = Append(got[g], Head(snd)) /\ \A h \in Gates : h # g => got'[h] = got[h]
    BY <1>3, <1>4
<1> QED BY <1>4, <1>6, <1>8, <1>9 DEF o

LEMMA PipesStep == TypeOK /\ StreamInv /\ [Next]_vars => UpNext /\ DownNext
<1> SUFFICES ASSUME TypeOK, StreamInv, [Next]_vars PROVE UpNext /\ DownNext
    OBVIOUS
<1> USE DEF UpNext, DownNext, Up!vars, Down!vars
<1>1. "from" \in Gates /\ "to" \in Gates /\ Other("from") = "to" /\ Other("to") = "from"
    BY DEF Gates, Other
<1>2. ASSUME UNCHANGED <<put, got>>, Ended' = Ended \/ Ended' = TRUE
      PROVE  UpNext /\ DownNext
    BY <1>2 DEF Up!Next, Down!Next, Up!Cut, Down!Cut
<1>3. CASE Callback
    <2>1. UNCHANGED <<put, got, peer>> /\ (disconnected => disconnected') /\ alive
        BY <1>3 DEF Callback, OnFrom, OnFromError, OnTo, OnToError
    <2>2. Ended => Ended'
        BY <2>1 DEF Ended
    <2>3. Ended \in BOOLEAN /\ Ended' \in BOOLEAN
        BY DEF Ended
    <2> QED BY <1>2, <2>1, <2>2, <2>3
<1>4. ASSUME NEW g \in Gates, Report(g) PROVE UpNext /\ DownNext
    <2>1. UNCHANGED <<put, got, peer, alive, disconnected>>
        BY <1>4 DEF Report
    <2> QED BY <2>1, <1>2 DEF Ended
<1>5. ASSUME NEW g \in Gates, Take(g) PROVE UpNext /\ DownNext
    <2>1. UNCHANGED Ended
        BY <1>5 DEF Take, Ended
    <2>2. /\ Len(got[g]) < Len(put[Other(g)])
          /\ got'[g] = Append(got[g], put[Other(g)][Len(got[g]) + 1])
          /\ \A h \in Gates : h # g => got'[h] = got[h]
          /\ put' = put
        BY <1>5, TakesNext
    <2>3. CASE g = "to"
        <3>1. Up!Deliver
            BY <1>1, <2>1, <2>2, <2>3 DEF Up!Deliver
        <3>2. UNCHANGED Down!vars
            BY <1>1, <2>1, <2>2, <2>3
        <3> QED BY <3>1, <3>2 DEF Up!Next
    <2>4. CASE g = "from"
        <3>1. Down!Deliver
            BY <1>1, <2>1, <2>2, <2>4 DEF Down!Deliver
        <3>2. UNCHANGED Up!vars
            BY <1>1, <2>1, <2>2, <2>4
        <3> QED BY <3>1, <3>2 DEF Down!Next
    <2> QED BY <2>3, <2>4 DEF Gates
<1>6. ASSUME NEW g \in Gates, Put(g) PROVE UpNext /\ DownNext
    <2> DEFINE unit == Len(put[g]) + 1
    <2>1. /\ put'[g] = Append(put[g], unit)
          /\ \A h \in Gates : h # g => put'[h] = put[h]
        BY <1>6, PutGate
    <2>2. UNCHANGED <<got, peer, alive, disconnected>> /\ UNCHANGED Ended
        BY <1>6 DEF Put, Ended
    <2>3. unit \in 1..MaxSent[g]
        <3>1. Len(put[g]) \in Nat /\ MaxSent[g] \in Nat
            BY NoneIsEmpty, TunnelAssumption DEF TypeOK, Gates
        <3>2. Len(put[g]) < MaxSent[g]
            BY <1>6 DEF Put
        <3> QED BY <3>1, <3>2
    <2> HIDE DEF unit
    <2>4. CASE g = "from"
        <3>1. Up!Send
            BY <2>1, <2>2, <2>3, <2>4 DEF Up!Send
        <3>2. UNCHANGED Down!vars
            BY <1>1, <2>1, <2>2, <2>4
        <3> QED BY <3>1, <3>2 DEF Up!Next
    <2>5. CASE g = "to"
        <3>1. Down!Send
            BY <2>1, <2>2, <2>3, <2>5 DEF Down!Send
        <3>2. UNCHANGED Up!vars
            BY <1>1, <2>1, <2>2, <2>5
        <3> QED BY <3>1, <3>2 DEF Down!Next
    <2> QED BY <2>4, <2>5 DEF Gates
<1>7. ASSUME NEW g \in Gates, NEW how \in {"fin", "rst"}, Leave(g, how)
      PROVE  UpNext /\ DownNext
    <2>1. UNCHANGED <<put, got>>
        BY <1>7 DEF Leave
    <2>2. Ended'
        BY <1>7 DEF Leave, TypeOK, Ended
    <2>3. Ended' \in BOOLEAN
        BY DEF Ended
    <2> QED BY <1>2, <2>1, <2>2, <2>3
<1>8. CASE UNCHANGED vars
    BY <1>8, <1>2 DEF vars, Ended
<1> QED BY <1>3, <1>4, <1>5, <1>6, <1>7, <1>8 DEF Next, Environment

(* A tunnel implements a pipe in each direction, but for what must arrive:   *)
(* each unit that reaches a peer is the next of what the other has sent      *)
(* (ImplementsPipes without its liveness).                                   *)
THEOREM PipesImplemented ==
    Spec => /\ Up!Init /\ [][Up!Next]_(Up!vars)
            /\ Down!Init /\ [][Down!Next]_(Down!vars)
<1>1. Init => TypeOK
    BY InitOK
<1>2. Init => Up!Init /\ Down!Init
    BY PipesInit DEF UpInit, DownInit
<1>3. TypeOK /\ StreamInv /\ [Next]_vars
        => [Up!Next]_(Up!vars) /\ [Down!Next]_(Down!vars)
    BY PipesStep DEF UpNext, DownNext
<1> QED
    BY <1>1, <1>2, <1>3, StreamInit, TypeStep, StreamStep, PTL DEF Spec

=============================================================================
