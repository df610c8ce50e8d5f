----------------------------- MODULE RelayProofs -----------------------------
(***************************************************************************)
(* Proofs about Relay, for any units, bounds and capacities: its types,    *)
(* that nothing is lost while the copies run, that the direction that      *)
(* ended the relay was written in full, and that Relay implements Pipe.    *)
(***************************************************************************)
EXTENDS Relay, SequenceTheorems, TLAPS

\* Concatenation under a name of its own: the proofs about the flow use the few
\* facts of UnitSeqs and never open it.
Cat(a, b) == a \o b

\* What the sink of a direction has read, then its window, the buffer and the queue.
Along(r, w, b, q) == Cat(Cat(Cat(r, w), b), q)

\* All that was sent is there, or a beginning of it is and the rest was dropped.
Whole(s, r, w, b, q) == s = Along(r, w, b, q)
Begun(s, r, w, b, q) == \E x \in Seq(Unit) : s = Cat(Along(r, w, b, q), x)

Exact(d) == pc # "closed" /\ src[d] # "reset"

Flow(d) ==
  sink[d] = "open" =>
    /\ Begun(sent[d], rcvd[d], window[d], buf[d], queue[d])
    /\ Exact(d) => Whole(sent[d], rcvd[d], window[d], buf[d], queue[d])

\* The relay is over exactly when something ended it; then it holds nothing, and
\* the source whose copy ended it sends no more.
Ended ==
  /\ pc = "closed" => queue = Empty /\ buf = Empty
  /\ pc # "closed" => why = "none"
  /\ \A d \in Dirs : why = d => src[d] # "open"

\* The inductive invariant: the two properties speak of a direction whose ends
\* are both there; Flow also says what is left of one whose source was reset or
\* whose relay was dropped in the middle.
IInv == TypeOK /\ Ended /\ (\A d \in Dirs : Flow(d)) /\ EndedDirectionIsDelivered

\* A unit moves from the front of b to the end of a (io::copy, a read).
LEMMA Move ==
  ASSUME NEW S, NEW a \in Seq(S), NEW b \in Seq(S), b # <<>>
  PROVE  /\ Append(a, Head(b)) \in Seq(S) /\ Tail(b) \in Seq(S)
         /\ Append(a, Head(b)) \o Tail(b) = a \o b
<1> DEFINE l == Append(a, Head(b)) \o Tail(b)
           m == a \o b
<1>1. Head(b) \in S /\ Tail(b) \in Seq(S) /\ Len(Tail(b)) = Len(b) - 1
  BY HeadTailProperties
<1>2. Append(a, Head(b)) \in Seq(S) /\ Len(Append(a, Head(b))) = Len(a) + 1
  BY <1>1
<1>3. Len(a) \in Nat /\ Len(b) \in Nat \ {0}
  BY EmptySeq, LenProperties
<1>4. l \in Seq(S) /\ m \in Seq(S) /\ Len(l) = Len(m) /\ Len(m) = Len(a) + Len(b)
  BY <1>1, <1>2, <1>3, ConcatProperties
<1>5. ASSUME NEW i \in 1 .. Len(l) PROVE l[i] = m[i]
  <2>1. l[i] = IF i <= Len(a) + 1 THEN Append(a, Head(b))[i] ELSE Tail(b)[i - (Len(a) + 1)]
    BY <1>1, <1>2, <1>3, <1>4, ConcatProperties
  <2>2. m[i] = IF i <= Len(a) THEN a[i] ELSE b[i - Len(a)]
    BY <1>3, <1>4, ConcatProperties
  <2>3. CASE i <= Len(a)
    BY <1>1, <1>3, <2>1, <2>2, <2>3
  <2>4. CASE i = Len(a) + 1
    BY <1>1, <1>3, <2>1, <2>2, <2>4
  <2>5. CASE i > Len(a) + 1
    <3>1. i - (Len(a) + 1) \in 1 .. Len(Tail(b))
      BY <1>1, <1>3, <1>4, <2>5
    <3>2. Tail(b)[i - (Len(a) + 1)] = b[(i - (Len(a) + 1)) + 1]
      BY <3>1, HeadTailProperties
    <3>3. QED
      BY <1>3, <2>1, <2>2, <2>5, <3>2
  <2>6. QED
    BY <1>3, <1>4, <2>3, <2>4, <2>5
<1>6. QED
  <2> HIDE DEF l, m
  <2>1. l = m
    BY <1>4, <1>5, SeqEqual
  <2>2. QED
    BY <1>1, <1>2, <2>1, SMTT(30) DEF l, m

\* Appending after a prefix is appending to the whole.
LEMMA AppendInside ==
  ASSUME NEW S, NEW p \in Seq(S), NEW a \in Seq(S), NEW u \in S
  PROVE  /\ Append(a, u) \in Seq(S) /\ p \o a \in Seq(S)
         /\ p \o Append(a, u) = Append(p \o a, u)
<1> DEFINE l == p \o Append(a, u)
           m == Append(p \o a, u)
<1>1. Len(p) \in Nat /\ Len(a) \in Nat
  BY LenProperties
<1>2. Append(a, u) \in Seq(S) /\ Len(Append(a, u)) = Len(a) + 1
  OBVIOUS
<1>3. p \o a \in Seq(S) /\ Len(p \o a) = Len(p) + Len(a)
  BY ConcatProperties
<1>4. l \in Seq(S) /\ m \in Seq(S) /\ Len(l) = Len(p) + (Len(a) + 1) /\ Len(m) = Len(l)
  BY <1>1, <1>2, <1>3, ConcatProperties
<1>5. ASSUME NEW i \in 1 .. Len(l) PROVE l[i] = m[i]
  <2>1. l[i] = IF i <= Len(p) THEN p[i] ELSE Append(a, u)[i - Len(p)]
    <3>1. i \in 1 .. Len(p) + Len(Append(a, u))
      BY <1>2, <1>4
    <3>2. QED
      BY <1>2, <3>1, ConcatProperties, Zenon
  <2>2. CASE i <= Len(p) + Len(a)
    <3>1. m[i] = (p \o a)[i]
      BY <1>1, <1>3, <1>4, <2>2
    <3>2. (p \o a)[i] = IF i <= Len(p) THEN p[i] ELSE a[i - Len(p)]
      BY <1>1, <1>4, <2>2, ConcatProperties
    <3>3. i > Len(p) => Append(a, u)[i - Len(p)] = a[i - Len(p)]
      BY <1>1, <1>4, <2>2
    <3>4. QED
      BY <1>1, <2>1, <3>1, <3>2, <3>3
  <2>3. CASE i = Len(p) + Len(a) + 1
    BY <1>1, <1>3, <2>1, <2>3
  <2>4. QED
    BY <1>1, <1>4, <2>2, <2>3
<1>6. QED
  <2> HIDE DEF l, m
  <2>1. l = m
    BY <1>4, <1>5, SeqEqual
  <2>2. QED
    BY <1>2, <1>3, <2>1 DEF l, m

\* The facts about sequences of units that the flow needs.
LEMMA UnitSeqs ==
  /\ <<>> \in Seq(Unit)
  /\ \A a, b \in Seq(Unit) : Cat(a, b) \in Seq(Unit)
  /\ \A a \in Seq(Unit) : Cat(a, <<>>) = a
  /\ \A a, b, c \in Seq(Unit) : Cat(Cat(a, b), c) = Cat(a, Cat(b, c))
  /\ \A a \in Seq(Unit) : \A u \in Unit : Append(a, u) \in Seq(Unit)
  /\ \A a \in Seq(Unit) : a # <<>> => Head(a) \in Unit /\ Tail(a) \in Seq(Unit)
<1>1. <<>> \in Seq(Unit)
  BY EmptySeq
<1>2. \A a, b \in Seq(Unit) : Cat(a, b) \in Seq(Unit)
  BY ConcatProperties DEF Cat
<1>3. \A a \in Seq(Unit) : Cat(a, <<>>) = a
  BY ConcatEmptySeq DEF Cat
<1>4. \A a, b, c \in Seq(Unit) : Cat(Cat(a, b), c) = Cat(a, Cat(b, c))
  BY ConcatAssociative, SMTT(30) DEF Cat
<1>5. \A a \in Seq(Unit) : \A u \in Unit : Append(a, u) \in Seq(Unit)
  OBVIOUS
<1>6. \A a \in Seq(Unit) : a # <<>> => Head(a) \in Unit /\ Tail(a) \in Seq(Unit)
  BY HeadTailProperties
<1>7. QED
  BY <1>1, <1>2, <1>3, <1>4, <1>5, <1>6, Zenon

\* Moving a unit, and appending one, in terms of Cat.
LEMMA UnitMoves ==
  /\ \A a, c \in Seq(Unit) : c # <<>> => Cat(Append(a, Head(c)), Tail(c)) = Cat(a, c)
  /\ \A p, a \in Seq(Unit) : \A u \in Unit : Cat(p, Append(a, u)) = Append(Cat(p, a), u)
<1>1. \A a, c \in Seq(Unit) : c # <<>> => Cat(Append(a, Head(c)), Tail(c)) = Cat(a, c)
  BY Move, SMTT(30) DEF Cat
<1>2. \A p, a \in Seq(Unit) : \A u \in Unit : Cat(p, Append(a, u)) = Append(Cat(p, a), u)
  BY AppendInside DEF Cat
<1>3. QED
  BY <1>1, <1>2, Zenon

\* A unit also moves behind a prefix.
LEMMA MoveInside ==
  ASSUME NEW p \in Seq(Unit), NEW a \in Seq(Unit), NEW c \in Seq(Unit), c # <<>>
  PROVE  Cat(Cat(p, Append(a, Head(c))), Tail(c)) = Cat(Cat(p, a), c)
<1>1. Head(c) \in Unit /\ Cat(p, a) \in Seq(Unit)
  BY UnitSeqs, Zenon
<1>2. Cat(p, Append(a, Head(c))) = Append(Cat(p, a), Head(c))
  BY <1>1, UnitMoves, Zenon
<1>3. Cat(Append(Cat(p, a), Head(c)), Tail(c)) = Cat(Cat(p, a), c)
  BY <1>1, UnitMoves, Zenon
<1>4. QED
  BY <1>2, <1>3, Zenon

\* A read, a write and a receive move a unit along and change nothing else.
LEMMA AlongMoves ==
  ASSUME NEW r \in Seq(Unit), NEW w \in Seq(Unit), NEW b \in Seq(Unit), NEW q \in Seq(Unit)
  PROVE  /\ q # <<>> => Along(r, w, Append(b, Head(q)), Tail(q)) = Along(r, w, b, q)
         /\ b # <<>> => Along(r, Append(w, Head(b)), Tail(b), q) = Along(r, w, b, q)
         /\ w # <<>> => Along(Append(r, Head(w)), Tail(w), b, q) = Along(r, w, b, q)
<1>1. Cat(r, w) \in Seq(Unit)
  BY UnitSeqs, Zenon
<1>2. q # <<>> => Along(r, w, Append(b, Head(q)), Tail(q)) = Along(r, w, b, q)
  BY <1>1, MoveInside DEF Along
<1>3. b # <<>> => Along(r, Append(w, Head(b)), Tail(b), q) = Along(r, w, b, q)
  BY MoveInside DEF Along
<1>4. w # <<>> => Along(Append(r, Head(w)), Tail(w), b, q) = Along(r, w, b, q)
  BY UnitMoves, Zenon DEF Along
<1>5. QED
  BY <1>2, <1>3, <1>4

\* What is along a direction is a sequence, and all of it a beginning of it.
LEMMA AlongType ==
  ASSUME NEW r \in Seq(Unit), NEW w \in Seq(Unit), NEW b \in Seq(Unit), NEW q \in Seq(Unit)
  PROVE  /\ Along(r, w, b, q) \in Seq(Unit)
         /\ Begun(Along(r, w, b, q), r, w, b, q)
<1>1. Along(r, w, b, q) \in Seq(Unit)
  BY UnitSeqs DEF Along
<1>2. Along(r, w, b, q) = Cat(Along(r, w, b, q), <<>>) /\ <<>> \in Seq(Unit)
  BY <1>1, UnitSeqs, Zenon
<1>3. QED
  BY <1>1, <1>2, Zenon DEF Begun

\* A source sends: to a relay that has lost nothing, or to one that is over.
LEMMA FlowSends ==
  ASSUME NEW s, NEW r \in Seq(Unit), NEW w \in Seq(Unit), NEW b \in Seq(Unit),
         NEW q \in Seq(Unit), NEW u \in Unit
  PROVE  /\ Whole(s, r, w, b, q) => Whole(Append(s, u), r, w, b, Append(q, u))
         /\ Begun(s, r, w, b, q) => Begun(Append(s, u), r, w, b, q)
<1>1. ASSUME Whole(s, r, w, b, q) PROVE Whole(Append(s, u), r, w, b, Append(q, u))
  <2>1. Cat(Cat(r, w), b) \in Seq(Unit)
    BY UnitSeqs
  <2>2. Cat(Cat(Cat(r, w), b), Append(q, u)) = Append(Cat(Cat(Cat(r, w), b), q), u)
    BY <2>1, UnitMoves, ZenonT(40)
  <2>3. QED
    BY <1>1, <2>2, Zenon DEF Whole, Along
<1>2. ASSUME Begun(s, r, w, b, q) PROVE Begun(Append(s, u), r, w, b, q)
  <2>1. Along(r, w, b, q) \in Seq(Unit)
    BY AlongType
  <2>2. PICK x \in Seq(Unit) : s = Cat(Along(r, w, b, q), x)
    BY <1>2, Zenon DEF Begun
  <2>3. /\ Append(x, u) \in Seq(Unit)
        /\ Cat(Along(r, w, b, q), Append(x, u)) = Append(Cat(Along(r, w, b, q), x), u)
    BY <2>1, UnitSeqs, UnitMoves
  <2>4. QED
    BY <2>2, <2>3, Zenon DEF Begun
<1>3. QED
  BY <1>1, <1>2

\* What is dropped from the queue, then the buffer, then the window, is missing
\* at the end: no hole appears (Drop, Leave).
LEMMA FlowDrops ==
  ASSUME NEW s, NEW r \in Seq(Unit), NEW w \in Seq(Unit), NEW b \in Seq(Unit),
         NEW q \in Seq(Unit), Begun(s, r, w, b, q)
  PROVE  /\ Begun(s, r, w, b, <<>>)
         /\ Begun(s, r, w, <<>>, <<>>)
         /\ Begun(s, r, <<>>, <<>>, <<>>)
<1>1. Cat(r, w) \in Seq(Unit) /\ Cat(Cat(r, w), b) \in Seq(Unit)
  BY UnitSeqs
<1>2. \E y \in Seq(Unit) : s = Cat(Cat(Cat(Cat(r, w), b), q), y)
  BY Zenon DEF Begun, Along
<1>3. ASSUME NEW a \in Seq(Unit), NEW c \in Seq(Unit),
             \E y \in Seq(Unit) : s = Cat(Cat(a, c), y)
      PROVE  \E y \in Seq(Unit) : s = Cat(a, y)
  <2>1. PICK y \in Seq(Unit) : s = Cat(Cat(a, c), y)
    BY <1>3
  <2>2. Cat(c, y) \in Seq(Unit) /\ Cat(Cat(a, c), y) = Cat(a, Cat(c, y))
    BY UnitSeqs
  <2>3. QED
    BY <2>1, <2>2, Zenon
<1>4. \E y \in Seq(Unit) : s = Cat(Cat(Cat(r, w), b), y)
  BY <1>1, <1>2, <1>3, Zenon
<1>5. \E y \in Seq(Unit) : s = Cat(Cat(r, w), y)
  BY <1>1, <1>3, <1>4
<1>6. \E y \in Seq(Unit) : s = Cat(r, y)
  BY <1>3, <1>5
<1>7. /\ Cat(r, <<>>) = r /\ Cat(Cat(r, w), <<>>) = Cat(r, w)
      /\ Cat(Cat(Cat(r, w), b), <<>>) = Cat(Cat(r, w), b)
  BY <1>1, UnitSeqs, Zenon
<1>8. QED
  BY <1>4, <1>5, <1>6, <1>7, Zenon DEF Begun, Along

\* What a sink reads is what comes next of what was sent.
LEMMA FlowShows ==
  ASSUME NEW s, NEW r \in Seq(Unit), NEW w \in Seq(Unit), NEW b \in Seq(Unit),
         NEW q \in Seq(Unit), Begun(s, r, w, b, q), w # <<>>
  PROVE  Len(r) < Len(s) /\ Head(w) = s[Len(r) + 1]
<1> DEFINE a == Append(r, Head(w))
<1>1. Head(w) \in Unit /\ Tail(w) \in Seq(Unit)
  BY UnitSeqs, Zenon
<1>2. a \in Seq(Unit) /\ Len(a) = Len(r) + 1 /\ a[Len(r) + 1] = Head(w) /\ Len(r) \in Nat
  BY <1>1, LenProperties
<1>3. Along(a, Tail(w), b, q) = Along(r, w, b, q)
  BY AlongMoves
<1> HIDE DEF a
<1>4. Begun(s, a, Tail(w), b, q)
  BY <1>3, Zenon DEF Begun
<1>5. Begun(s, a, <<>>, <<>>, <<>>)
  BY <1>1, <1>2, <1>4, FlowDrops, Zenon
<1>6. PICK x \in Seq(Unit) : s = a \o x
  <2>1. Along(a, <<>>, <<>>, <<>>) = a
    BY <1>2, UnitSeqs DEF Along
  <2>2. QED
    BY <1>5, <2>1, Zenon DEF Begun, Cat
<1>7. Len(x) \in Nat /\ Len(s) = (Len(r) + 1) + Len(x)
  <2>1. Len(x) \in Nat /\ Len(a \o x) = Len(a) + Len(x)
    BY <1>2, ConcatProperties, LenProperties, Zenon
  <2>2. QED
    BY <1>2, <1>6, <2>1
<1>8. s[Len(r) + 1] = a[Len(r) + 1]
  BY <1>2, <1>6, <1>7, ConcatProperties
<1>9. QED
  BY <1>2, <1>7, <1>8

(***************************************************************************)
(* The inductive invariant, action by action.                              *)
(***************************************************************************)

\* Nothing was sent, so nothing is missing.
LEMMA InitInv == Init => IInv
<1> SUFFICES ASSUME Init PROVE IInv
  OBVIOUS
<1>1. <<>> \in Seq(Unit) /\ Cat(<<>>, <<>>) = <<>>
  BY UnitSeqs, Zenon
<1>2. Along(<<>>, <<>>, <<>>, <<>>) = <<>>
  BY <1>1 DEF Along
<1>3. TypeOK /\ Ended /\ EndedDirectionIsDelivered
  BY <1>1 DEF Init, Empty, Dirs, TypeOK, Ended, EndedDirectionIsDelivered
<1>4. ASSUME NEW d \in Dirs PROVE Flow(d)
  BY <1>1, <1>2, AlongType, Zenon DEF Init, Empty, Flow, Whole
<1>5. QED
  BY <1>3, <1>4 DEF IInv

\* Accept, Connect and HalfClose leave the data where it is.
LEMMA QuietInv ==
  ASSUME IInv,
         \/ Accept \/ Connect \/ Over \/ UNCHANGED vars
         \/ \E d \in Dirs : HalfClose(d)
  PROVE  IInv'
<1>1. TypeOK' /\ Ended' /\ EndedDirectionIsDelivered'
  BY Zenon DEF IInv, TypeOK, Ended, EndedDirectionIsDelivered, Accept, Connect, Over, vars, HalfClose
<1>2. ASSUME NEW d \in Dirs PROVE Flow(d)'
  BY SMTT(30) DEF IInv, TypeOK, Flow, Exact, Accept, Connect, Over, vars, HalfClose
<1>3. QED
  BY <1>1, <1>2 DEF IInv

\* A read of io::copy moves a unit from the queue to the buffer.
LEMMA ReadInv ==
  ASSUME IInv, NEW e \in Dirs, Read(e)
  PROVE  IInv'
<1>1. /\ Head(queue[e]) \in Unit /\ Tail(queue[e]) \in Seq(Unit)
      /\ Append(buf[e], Head(queue[e])) \in Seq(Unit)
  BY HeadTailProperties DEF IInv, TypeOK, Read
<1>2. TypeOK' /\ Ended' /\ EndedDirectionIsDelivered'
  BY <1>1, SMTT(30) DEF IInv, TypeOK, Ended, EndedDirectionIsDelivered, Read
<1>3. ASSUME NEW d \in Dirs PROVE Flow(d)'
  <2>1. Along(rcvd'[d], window'[d], buf'[d], queue'[d]) = Along(rcvd[d], window[d], buf[d], queue[d])
    <3>1. CASE d = e
      <4>1. /\ queue[e] # <<>> /\ queue'[e] = Tail(queue[e]) /\ window' = window
            /\ buf'[e] = Append(buf[e], Head(queue[e])) /\ rcvd' = rcvd
        BY DEF IInv, TypeOK, Read
      <4>2. QED
        BY <3>1, <4>1, AlongMoves DEF IInv, TypeOK
    <3>2. CASE d # e
      BY <3>2 DEF IInv, TypeOK, Read
    <3>3. QED
      BY <3>1, <3>2
  <2>2. QED
    BY <2>1 DEF IInv, Flow, Exact, Whole, Begun, Read
<1>4. QED
  BY <1>2, <1>3 DEF IInv

\* A write of io::copy moves a unit from the buffer to the window; to a sink
\* that has closed there is no flow any more.
LEMMA WriteInv ==
  ASSUME IInv, NEW e \in Dirs, Write(e)
  PROVE  IInv'
<1>1. /\ Head(buf[e]) \in Unit /\ Tail(buf[e]) \in Seq(Unit)
      /\ Append(window[e], Head(buf[e])) \in Seq(Unit)
  BY HeadTailProperties DEF IInv, TypeOK, Write
<1>2. TypeOK'
  BY <1>1, ZenonT(40) DEF IInv, TypeOK, Write
<1>3. Ended' /\ EndedDirectionIsDelivered'
  BY DEF IInv, TypeOK, Ended, EndedDirectionIsDelivered, Write, Dirs
<1>4. ASSUME NEW d \in Dirs, sink[d] = "open" PROVE Flow(d)'
  <2>1. Along(rcvd'[d], window'[d], buf'[d], queue'[d]) = Along(rcvd[d], window[d], buf[d], queue[d])
    <3>1. CASE d = e
      <4>1. /\ buf[e] # <<>> /\ buf'[e] = Tail(buf[e]) /\ queue' = queue
            /\ window'[e] = Append(window[e], Head(buf[e])) /\ rcvd' = rcvd
        BY <1>4, <3>1 DEF IInv, TypeOK, Write
      <4>2. QED
        BY <3>1, <4>1, AlongMoves DEF IInv, TypeOK
    <3>2. CASE d # e
      BY <3>2 DEF IInv, TypeOK, Write
    <3>3. QED
      BY <3>1, <3>2
  <2>2. QED
    BY <1>4, <2>1 DEF IInv, Flow, Exact, Whole, Begun, Write
<1>5. ASSUME NEW d \in Dirs, sink[d] # "open" PROVE Flow(d)'
  BY <1>5 DEF Flow, Write
<1>6. QED
  BY <1>2, <1>3, <1>4, <1>5 DEF IInv

\* A receive moves a unit from the window to what the sink has read.
LEMMA ReceiveInv ==
  ASSUME IInv, NEW e \in Dirs, Receive(e)
  PROVE  IInv'
<1>1. /\ window[e] # <<>> /\ window[e] \in Seq(Unit) /\ rcvd[e] \in Seq(Unit)
      /\ window'[e] = Tail(window[e]) /\ rcvd'[e] = Append(rcvd[e], Head(window[e]))
  BY DEF IInv, TypeOK, Receive
<1>2. /\ Head(window[e]) \in Unit /\ Tail(window[e]) \in Seq(Unit)
      /\ Append(rcvd[e], Head(window[e])) \in Seq(Unit)
      /\ rcvd'[e] \o window'[e] = rcvd[e] \o window[e]
  <2>1. Head(window[e]) \in Unit /\ Tail(window[e]) \in Seq(Unit)
    BY <1>1, UnitSeqs, Zenon
  <2>2. /\ Append(rcvd[e], Head(window[e])) \in Seq(Unit)
        /\ Cat(Append(rcvd[e], Head(window[e])), Tail(window[e])) = Cat(rcvd[e], window[e])
    BY <1>1, <2>1, UnitSeqs, UnitMoves, Zenon
  <2>3. QED
    BY <1>1, <2>1, <2>2, Zenon DEF Cat
<1>3. TypeOK'
  BY <1>2, SMTT(30) DEF IInv, TypeOK, Receive
<1>4. Ended' /\ EndedDirectionIsDelivered'
  BY <1>2, Zenon DEF IInv, TypeOK, Ended, EndedDirectionIsDelivered, Receive
<1>5. ASSUME NEW d \in Dirs PROVE Flow(d)'
  <2>1. Along(rcvd'[d], window'[d], buf'[d], queue'[d]) = Along(rcvd[d], window[d], buf[d], queue[d])
    <3>1. CASE d = e
      <4>1. buf'[e] = buf[e] /\ queue'[e] = queue[e] /\ buf[e] \in Seq(Unit) /\ queue[e] \in Seq(Unit)
        BY DEF IInv, TypeOK, Receive
      <4>2. Along(Append(rcvd[e], Head(window[e])), Tail(window[e]), buf[e], queue[e])
            = Along(rcvd[e], window[e], buf[e], queue[e])
        BY <1>1, <4>1, AlongMoves
      <4>3. QED
        BY <1>1, <3>1, <4>1, <4>2, Zenon
    <3>2. CASE d # e
      BY <3>2 DEF IInv, TypeOK, Receive
    <3>3. QED
      BY <3>1, <3>2
  <2>2. QED
    BY <2>1 DEF IInv, Flow, Exact, Whole, Begun, Receive
<1>6. QED
  BY <1>3, <1>4, <1>5 DEF IInv

\* The two directions are opposite to each other.
LEMMA Opposite ==
  ASSUME NEW d \in Dirs
  PROVE  /\ Opp(d) \in Dirs /\ Opp(d) # d /\ Opp(Opp(d)) = d
         /\ \A e \in Dirs : e # d => e = Opp(d)
BY DEF Dirs, Opp

\* A source sends to a relay that runs: the unit is queued.
LEMMA SendInv ==
  ASSUME IInv, NEW e \in Dirs, Send(e), pc # "closed"
  PROVE  IInv'
<1>1. PICK u \in Unit : /\ sent' = [sent EXCEPT ![e] = Append(@, u)]
                        /\ queue' = [queue EXCEPT ![e] = Append(@, u)]
  BY Zenon DEF Send
<1>2. UNCHANGED <<pc, src, buf, window, rcvd, sink, why, rst>> /\ src[e] = "open"
  BY DEF Send
<1>3. TypeOK' /\ Ended' /\ EndedDirectionIsDelivered'
  <2>1. TypeOK'
    BY <1>1, <1>2, SMTT(30) DEF IInv, TypeOK
  <2>2. Ended' /\ EndedDirectionIsDelivered'
    BY <1>2 DEF IInv, Ended, EndedDirectionIsDelivered, Dirs
  <2>3. QED
    BY <2>1, <2>2
<1>4. ASSUME NEW d \in Dirs, sink[d] = "open", d = e PROVE Flow(d)'
  <2>1. Whole(sent[e], rcvd[e], window[e], buf[e], queue[e])
    BY <1>2, <1>4 DEF IInv, Flow, Exact
  <2>2. Whole(Append(sent[e], u), rcvd[e], window[e], buf[e], Append(queue[e], u))
    BY <2>1, FlowSends DEF IInv, TypeOK
  <2>3. sent'[e] = Append(sent[e], u) /\ queue'[e] = Append(queue[e], u)
    BY <1>1, SMTT(30) DEF IInv, TypeOK
  <2>4. Whole(sent'[e], rcvd'[e], window'[e], buf'[e], queue'[e])
    BY <1>2, <2>2, <2>3, Zenon
  <2>5. Begun(sent'[e], rcvd'[e], window'[e], buf'[e], queue'[e])
    BY <1>3, <2>4, AlongType DEF TypeOK, Whole
  <2>6. QED
    BY <1>4, <2>4, <2>5 DEF Flow
<1>5. ASSUME NEW d \in Dirs, d # e PROVE Flow(d)'
  <2>1. sent'[d] = sent[d] /\ queue'[d] = queue[d]
    BY <1>1, <1>5 DEF IInv, TypeOK
  <2>2. QED
    BY <1>2, <2>1 DEF IInv, Flow, Exact
<1>6. ASSUME NEW d \in Dirs, sink[d] # "open" PROVE Flow(d)'
  BY <1>2, <1>6 DEF Flow
<1>7. QED
  BY <1>3, <1>4, <1>5, <1>6 DEF IInv

\* A source sends to a relay that is over: the unit is lost, and the reset may
\* cost its end what it had not read.
LEMMA SendLateInv ==
  ASSUME IInv, NEW e \in Dirs, Send(e), pc = "closed"
  PROVE  IInv'
<1>1. PICK u \in Unit : sent' = [sent EXCEPT ![e] = Append(@, u)]
  BY Zenon DEF Send
<1>2. /\ UNCHANGED <<pc, src, queue, buf, rcvd, sink, why>> /\ src[e] = "open"
      /\ rst' = rst \cup {e}
  BY DEF Send
<1>3. /\ Opp(e) \in Dirs /\ Opp(e) # e /\ window'[e] = window[e]
      /\ window'[Opp(e)] \in {window[Opp(e)], <<>>}
      /\ window' \in [Dirs -> Seq(Unit)]
  <2>1. PICK w \in {window[Opp(e)], <<>>} : window' = [window EXCEPT ![Opp(e)] = w]
    BY DEF Send
  <2>2. Opp(e) \in Dirs /\ Opp(e) # e
    BY Opposite
  <2>3. w \in Seq(Unit)
    BY <2>1, <2>2, EmptySeq, ZenonT(40) DEF IInv, TypeOK
  <2>4. QED
    BY <2>1, <2>2, <2>3 DEF IInv, TypeOK
<1>4. TypeOK'
  <2>1. sent' \in [Dirs -> Seq(Unit)]
    BY <1>1 DEF IInv, TypeOK
  <2>2. QED
    BY <1>2, <1>3, <2>1, Zenon DEF IInv, TypeOK
<1>5. Ended'
  BY <1>2 DEF IInv, Ended
<1>6. EndedDirectionIsDelivered'
  BY <1>2, Opposite DEF IInv, Ended, EndedDirectionIsDelivered
<1>7. ASSUME NEW d \in Dirs, sink[d] = "open" PROVE Begun(sent[d], rcvd[d], window[d], <<>>, <<>>)
  <2>1. queue[d] = <<>> /\ buf[d] = <<>>
    BY DEF IInv, Ended, Empty
  <2>2. QED
    BY <1>7, <2>1 DEF IInv, Flow
<1>8. ASSUME NEW d \in Dirs, sink[d] = "open"
      PROVE  Begun(sent'[d], rcvd[d], window'[d], <<>>, <<>>)
  <2>1. CASE d = e
    <3>1. sent'[e] = Append(sent[e], u)
      BY <1>1 DEF IInv, TypeOK
    <3>2. Begun(Append(sent[e], u), rcvd[e], window[e], <<>>, <<>>)
      BY <1>7, <1>8, <2>1, FlowSends, EmptySeq, Zenon DEF IInv, TypeOK
    <3>3. QED
      BY <1>3, <2>1, <3>1, <3>2, Zenon
  <2>2. CASE d = Opp(e)
    <3>1. sent'[d] = sent[d]
      BY <1>1, <1>3, <2>2 DEF IInv, TypeOK
    <3>2. QED
      BY <1>3, <1>7, <1>8, <2>2, <3>1, FlowDrops, EmptySeq, SMTT(30) DEF IInv, TypeOK
  <2>3. QED
    BY <2>1, <2>2, Opposite
<1>9. ASSUME NEW d \in Dirs PROVE Flow(d)'
  <2>1. queue'[d] = <<>> /\ buf'[d] = <<>>
    BY <1>2 DEF IInv, Ended, Empty
  <2>2. QED
    BY <1>2, <1>8, <2>1 DEF Flow, Exact
<1>10. QED
  BY <1>4, <1>5, <1>6, <1>9 DEF IInv

\* An end leaves: the direction it reads is over, and after a reset the relay
\* loses what it had not read of the other.
LEMMA LeaveInv ==
  ASSUME IInv, NEW e \in Dirs, Leave(e)
  PROVE  IInv'
<1>1. /\ Opp(e) \in Dirs /\ Opp(e) # e /\ \A d \in Dirs : d # e => d = Opp(e)
  BY Opposite
<1>2. /\ UNCHANGED <<pc, sent, buf, rcvd, why, rst>>
      /\ sink'[Opp(e)] = "closed" /\ sink'[e] = sink[e]
      /\ window'[e] = window[e]
      /\ src'[Opp(e)] = src[Opp(e)] /\ src'[e] # "open" /\ (src[e] = "reset" => src'[e] = "reset")
      /\ queue'[Opp(e)] = queue[Opp(e)]
      /\ \/ queue'[e] = queue[e]
         \/ queue'[e] = <<>> /\ src'[e] = "reset"
  BY <1>1, SMTT(30) DEF IInv, TypeOK, Leave
<1>3. TypeOK'
  <2>1. sink' \in [Dirs -> {"open", "closed"}] /\ src' \in [Dirs -> {"open", "fin", "reset"}]
    BY <1>1, Zenon DEF IInv, TypeOK, Leave
  <2>2. window' \in [Dirs -> Seq(Unit)]
    BY <1>1, EmptySeq DEF IInv, TypeOK, Leave
  <2>3. queue' \in [Dirs -> Seq(Unit)]
    <3>1. queue \in [Dirs -> Seq(Unit)] /\ <<>> \in Seq(Unit)
      BY EmptySeq DEF IInv, TypeOK
    <3>2. queue' = queue \/ queue' = [queue EXCEPT ![e] = <<>>]
      BY SMTT(30) DEF Leave
    <3>3. QED
      BY <3>1, <3>2, Zenon
  <2>4. QED
    BY <1>2, <2>1, <2>2, <2>3, Zenon DEF IInv, TypeOK
<1>4. Ended'
  <2>1. pc = "closed" => queue' = Empty
    BY DEF IInv, Ended, Leave, Empty
  <2>2. QED
    BY <1>1, <1>2, <2>1 DEF IInv, Ended
<1>5. EndedDirectionIsDelivered'
  <2>1. ASSUME NEW d \in Dirs, (why = d /\ sink[d] = "open" /\ Opp(d) \notin rst)'
        PROVE  rcvd'[d] \o window'[d] = sent'[d]
    <3>1. d = e
      BY <1>1, <1>2, <2>1
    <3>2. QED
      BY <1>2, <2>1, <3>1, Zenon DEF IInv, EndedDirectionIsDelivered
  <2>2. QED
    BY <2>1, Zenon DEF EndedDirectionIsDelivered
<1>6. ASSUME sink[e] = "open" PROVE Flow(e)'
  <2>1. Begun(sent[e], rcvd[e], window[e], buf[e], queue[e])
    BY <1>6 DEF IInv, Flow
  <2>2. Begun(sent[e], rcvd[e], window[e], buf[e], <<>>)
    BY <2>1, FlowDrops, Zenon DEF IInv, TypeOK
  <2>3. QED
    BY <1>2, <1>6, <2>1, <2>2, SMTT(30) DEF IInv, Flow, Exact
<1>7. ASSUME NEW d \in Dirs PROVE Flow(d)'
  BY <1>1, <1>2, <1>6 DEF Flow
<1>8. QED
  BY <1>3, <1>4, <1>5, <1>7 DEF IInv

\* The streams are dropped.  A copy that ended it had written all it was sent.
LEMMA DropInv ==
  ASSUME IInv, pc # "closed", NEW reason \in Dirs \cup {"connect", "error"}, Drop(reason),
         reason \in Dirs => AtEnd(reason)
  PROVE  IInv'
<1>1. PICK lost \in SUBSET {Opp(d) : d \in {c \in Dirs : queue[c] # <<>>}} :
         window' = [d \in Dirs |-> IF d \in lost THEN <<>> ELSE window[d]]
  BY SMTT(30) DEF Drop
<1>2. /\ UNCHANGED <<sent, src, rcvd, sink>> /\ pc' = "closed" /\ why' = reason
      /\ rst' = {c \in Dirs : queue[c] # <<>>} /\ queue' = Empty /\ buf' = Empty
  BY DEF Drop
<1>3. TypeOK'
  <2>1. window' \in [Dirs -> Seq(Unit)] /\ Empty \in [Dirs -> Seq(Unit)]
    BY <1>1, EmptySeq DEF IInv, TypeOK, Empty
  <2>2. rst' \subseteq Dirs
    BY <1>2
  <2>3. QED
    BY <1>2, <2>1, <2>2 DEF IInv, TypeOK
<1>4. Ended'
  BY <1>2 DEF Ended, AtEnd
<1>5. ASSUME NEW d \in Dirs, sink[d] = "open"
      PROVE  Begun(sent[d], rcvd[d], window'[d], <<>>, <<>>)
  <2>1. Begun(sent[d], rcvd[d], window[d], buf[d], queue[d])
    BY <1>5 DEF IInv, Flow
  <2>2. /\ Begun(sent[d], rcvd[d], window[d], <<>>, <<>>)
        /\ Begun(sent[d], rcvd[d], <<>>, <<>>, <<>>)
    BY <2>1, FlowDrops DEF IInv, TypeOK
  <2>3. window'[d] = window[d] \/ window'[d] = <<>>
    BY <1>1, SMTT(30)
  <2>4. QED
    BY <2>2, <2>3, Zenon
<1>6. ASSUME NEW d \in Dirs PROVE Flow(d)'
  <2>1. queue'[d] = <<>> /\ buf'[d] = <<>>
    BY <1>2, SMTT(30) DEF Empty
  <2>2. QED
    BY <1>2, <1>5, <2>1 DEF Flow, Exact
<1>7. ASSUME NEW d \in Dirs, reason = d, sink[d] = "open", Opp(d) \notin rst'
      PROVE  rcvd[d] \o window'[d] = sent[d]
  <2>1. src[d] = "fin" /\ queue[d] = <<>> /\ buf[d] = <<>>
    BY <1>7 DEF AtEnd
  <2>2. Whole(sent[d], rcvd[d], window[d], <<>>, <<>>)
    BY <1>7, <2>1 DEF IInv, Flow, Exact
  <2>3. sent[d] = rcvd[d] \o window[d]
    <3>1. rcvd[d] \in Seq(Unit) /\ window[d] \in Seq(Unit)
      BY DEF IInv, TypeOK
    <3>2. Along(rcvd[d], window[d], <<>>, <<>>) = Cat(rcvd[d], window[d])
      BY <3>1, UnitSeqs, SMTT(30) DEF Along
    <3>3. QED
      BY <2>2, <3>2, Zenon DEF Whole, Cat
  <2>4. d \notin lost
    <3>1. ASSUME NEW c \in Dirs, Opp(c) = d PROVE c = Opp(d)
      BY <3>1, Opposite
    <3>2. QED
      BY <1>1, <1>2, <1>7, <3>1
  <2>5. QED
    BY <1>1, <2>3, <2>4, Zenon
<1>8. EndedDirectionIsDelivered'
  BY <1>2, <1>7, Zenon DEF EndedDirectionIsDelivered
<1>9. QED
  BY <1>3, <1>4, <1>6, <1>8 DEF IInv

\* Every step of the relay and of its ends keeps the invariant.
LEMMA Inductive == IInv /\ [Next]_vars => IInv'
<1> SUFFICES ASSUME IInv, [Next]_vars PROVE IInv'
  OBVIOUS
<1>1. CASE Accept \/ Connect \/ Over \/ UNCHANGED vars
  BY <1>1, QuietInv
<1>2. CASE ConnectErr
  BY <1>2, DropInv DEF ConnectErr, Dirs
<1>3. ASSUME NEW d \in Dirs, RelayStep(d) PROVE IInv'
  <2>1. CASE Read(d)
    BY <2>1, ReadInv
  <2>2. CASE Write(d)
    BY <2>2, WriteInv
  <2>3. CASE CopyEnds(d)
    BY <2>3, DropInv DEF CopyEnds
  <2>4. CASE CopyFails(d)
    BY <2>4, DropInv DEF CopyFails, Dirs
  <2>5. QED
    BY <1>3, <2>1, <2>2, <2>3, <2>4 DEF RelayStep
<1>4. ASSUME NEW d \in Dirs, Ends(d) PROVE IInv'
  <2>1. CASE Send(d)
    BY <2>1, SendInv, SendLateInv
  <2>2. CASE HalfClose(d)
    BY <2>2, QuietInv
  <2>3. CASE Leave(d)
    BY <2>3, LeaveInv
  <2>4. CASE Receive(d)
    BY <2>4, ReceiveInv
  <2>5. QED
    BY <1>4, <2>1, <2>2, <2>3, <2>4 DEF Ends
<1>5. QED
  BY <1>1, <1>2, <1>3, <1>4 DEF Next

\* The invariant holds in every state of every connection.
THEOREM Invariant == Spec => []IInv
<1>1. Init => IInv
  BY InitInv
<1>2. IInv /\ [Next]_vars => IInv'
  BY Inductive
<1>3. QED
  BY <1>1, <1>2, PTL DEF Spec

\* The types of handle_connection's state hold for any units and capacities.
THEOREM TypeCorrect == Spec => []TypeOK
<1>1. IInv => TypeOK
  BY SMTT(30) DEF IInv
<1>2. QED
  BY <1>1, Invariant, PTL

\* While the two copies of handle_connection run, nothing of a direction with
\* both its ends is lost, repeated or reordered, whatever the buffers hold.
THEOREM NothingLost == Spec => []NothingLostWhileCopying
<1>1. IInv => NothingLostWhileCopying
  BY Zenon DEF IInv, NothingLostWhileCopying, Flow, Exact, Whole, Along, Cat
<1>2. QED
  BY <1>1, Invariant, PTL

\* The direction whose copy made select! return was written in full, for any
\* amount of data and any capacities.
THEOREM EndedDelivered == Spec => []EndedDirectionIsDelivered
<1>1. IInv => EndedDirectionIsDelivered
  BY DEF IInv
<1>2. QED
  BY <1>1, Invariant, PTL

\* A step of the relay is a step of the pipe, or changes neither what was sent
\* nor what was read.
LEMMA PipeStep == IInv /\ [Next]_vars => [P!PipeNext]_(P!pvars)
<1> SUFFICES ASSUME IInv, [Next]_vars PROVE P!PipeNext \/ UNCHANGED P!pvars
  OBVIOUS
<1>1. ASSUME NEW d \in Dirs, Send(d) PROVE P!PipeNext
  BY <1>1, Zenon DEF Send, P!PipeNext, P!Put
<1>2. ASSUME NEW d \in Dirs, Receive(d) PROVE P!PipeNext
  <2>1. Begun(sent[d], rcvd[d], window[d], buf[d], queue[d]) /\ window[d] # <<>>
    BY <1>2 DEF IInv, Flow, Receive
  <2>2. Len(rcvd[d]) < Len(sent[d]) /\ Head(window[d]) = sent[d][Len(rcvd[d]) + 1]
    BY <2>1, FlowShows, Zenon DEF IInv, TypeOK
  <2>3. P!Take(d)
    BY <1>2, <2>2, Zenon DEF Receive, P!Take
  <2>4. QED
    BY <2>3 DEF P!PipeNext
<1>3. CASE Accept \/ Connect \/ ConnectErr \/ Over \/ UNCHANGED vars
  BY <1>3 DEF Accept, Connect, ConnectErr, Over, Drop, vars, P!pvars
<1>4. ASSUME NEW d \in Dirs, RelayStep(d) \/ HalfClose(d) \/ Leave(d) PROVE UNCHANGED P!pvars
  <2>1. CASE HalfClose(d) \/ Leave(d)
    BY <2>1 DEF HalfClose, Leave, P!pvars
  <2>2. CASE Read(d) \/ Write(d)
    BY <2>2 DEF Read, Write, P!pvars
  <2>3. CASE CopyEnds(d) \/ CopyFails(d)
    BY <2>3 DEF CopyEnds, CopyFails, Drop, P!pvars
  <2>4. QED
    BY <1>4, <2>1, <2>2, <2>3 DEF RelayStep
<1>5. QED
  BY <1>1, <1>2, <1>3, <1>4 DEF Next, Ends

\* A relayed connection implements Pipe: a sink reads what its source sent, in
\* order and without a gap, until the relay stops.
THEOREM RelayImplementsPipe == Spec => ImplementsPipe
<1>1. Init => P!PipeInit
  BY DEF Init, Empty, P!PipeInit
<1>2. IInv /\ [Next]_vars => [P!PipeNext]_(P!pvars)
  BY PipeStep
<1>3. QED
  BY <1>1, <1>2, Invariant, PTL DEF Spec, ImplementsPipe, P!PipeSpec
=============================================================================
