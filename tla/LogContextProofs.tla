--------------------------- MODULE LogContextProofs ----------------------------
(***************************************************************************)
(* Proofs about LogContext for any threads and writers. Contexts have to   *)
(* be Nested: two that overlap leave the configuration of one that ended.  *)
(***************************************************************************)
EXTENDS LogContext, SequenceTheorems, TLAPS

\* No object is in two scopes.
WritersDiffer ==
    \A t, u \in Threads : \A i \in DOMAIN scopes[t], j \in DOMAIN scopes[u] :
        scopes[t][i].writer = scopes[u][j].writer => t = u /\ i = j

\* order holds the writers of the open contexts, each once.
OrderDiffers == \A m, n \in DOMAIN order : order[m] = order[n] => m = n
OrderIsOpen ==
    \A n \in DOMAIN order : \E t \in Threads : \E i \in DOMAIN scopes[t] :
        scopes[t][i].state = "open" /\ scopes[t][i].writer = order[n]

\* What the context at place n of order has to restore.
Before(n) == IF n = 1 THEN None ELSE order[n - 1]
OpenIsOrdered ==
    \A t \in Threads : \A i \in DOMAIN scopes[t] :
        scopes[t][i].state = "open" =>
            \E n \in DOMAIN order : /\ order[n] = scopes[t][i].writer
                                    /\ scopes[t][i].m_old_cfg = Before(n)

Current == log_cfg = (IF order = <<>> THEN None ELSE Last(order))

\* The configuration does not change while a message is written.
Locked == lock # None => using = log_cfg

IInv == /\ TypeOK /\ WritersDiffer /\ OrderDiffers /\ OrderIsOpen
        /\ OpenIsOrdered /\ Current /\ Locked

\* A sequence without its last element.
LEMMA FrontProperties ==
    ASSUME NEW S, NEW s \in Seq(S), s # <<>>
    PROVE  /\ Front(s) \in Seq(S) /\ Len(Front(s)) = Len(s) - 1
           /\ \A i \in 1 .. Len(s) - 1 : Front(s)[i] = s[i]
<1>1. PICK n \in Nat : n + 1 = Len(s)
  <2>1. Len(s) \in Nat /\ Len(s) # 0
    OBVIOUS
  <2>2. Len(s) - 1 \in Nat /\ (Len(s) - 1) + 1 = Len(s)
    BY <2>1
  <2> QED
    BY <2>2
<1>2. \A i \in 1 .. n : s[i] \in S
  BY <1>1
<1>3. /\ SubSeq(s, 1, n) \in Seq(S)
      /\ Len(SubSeq(s, 1, n)) = IF 1 <= n THEN n - 1 + 1 ELSE 0
      /\ \A i \in 1 .. n - 1 + 1 : SubSeq(s, 1, n)[i] = s[1 + i - 1]
  BY <1>2, SubSeqProperties
<1>4. Front(s) = SubSeq(s, 1, n) /\ Len(s) - 1 = n
  BY <1>1 DEF Front
<1>5. n - 1 + 1 = n /\ \A i \in 1 .. n : 1 + i - 1 = i
  OBVIOUS
<1> QED
  BY <1>3, <1>4, <1>5

LEMMA RemoveLast ==
    ASSUME NEW S, NEW s \in Seq(S), s # <<>>
    PROVE  RemoveAt(s, Len(s)) = Front(s)
<1>1. Len(s) \in Nat /\ Len(s) < Len(s) + 1
  OBVIOUS
<1>2. SubSeq(s, Len(s) + 1, Len(s)) = <<>>
  BY <1>1, SubSeqEmpty
<1>3. RemoveAt(s, Len(s)) = Front(s) \o <<>> /\ Front(s) \in Seq(S)
  BY <1>2, FrontProperties DEF RemoveAt, Front
<1> QED
  BY <1>3

LEMMA InitIInv == Init => IInv
<1> SUFFICES ASSUME Init PROVE IInv
  OBVIOUS
<1>1. TypeOK
  BY DEF Init, TypeOK, Configs
<1> QED
  BY <1>1 DEF Init, IInv, WritersDiffer, OrderDiffers, OrderIsOpen, OpenIsOrdered, Current, Locked

LEMMA CreateWriterStep ==
    ASSUME IInv, NEW t \in Threads, CreateWriter(t)
    PROVE  IInv'
<1>1. PICK w \in Writers \ Alive :
          scopes' = [scopes EXCEPT ![t] =
              Append(@, [writer |-> w, m_old_cfg |-> None, state |-> "created"])]
  BY DEF CreateWriter
<1>2. UNCHANGED <<log_cfg, lock, using, order>>
  BY DEF CreateWriter
<1>3. TypeOK
  BY DEF IInv
<1>4. scopes[t] \in Seq(Scope) /\ [writer |-> w, m_old_cfg |-> None, state |-> "created"] \in Scope
  BY <1>3 DEF TypeOK, Scope, Configs
<1>5. /\ Len(scopes'[t]) = Len(scopes[t]) + 1 /\ scopes'[t] \in Seq(Scope)
      /\ \A i \in DOMAIN scopes[t] : i \in DOMAIN scopes'[t] /\ scopes'[t][i] = scopes[t][i]
      /\ scopes'[t][Len(scopes[t]) + 1] = [writer |-> w, m_old_cfg |-> None, state |-> "created"]
      /\ \A i \in DOMAIN scopes'[t] : i \in DOMAIN scopes[t] \/ i = Len(scopes[t]) + 1
  BY <1>1, <1>3, <1>4 DEF TypeOK
<1>6. \A u \in Threads \ {t} : scopes'[u] = scopes[u]
  BY <1>1, <1>3 DEF TypeOK
<1>7. TypeOK'
  BY <1>1, <1>2, <1>3, <1>5 DEF TypeOK
<1>8. \A u \in Threads : \A i \in DOMAIN scopes[u] : scopes[u][i].writer # w
  BY <1>1 DEF Alive, InScope
<1>9. WritersDiffer'
  BY <1>5, <1>6, <1>8 DEF IInv, WritersDiffer
<1>10. OrderIsOpen'
  BY <1>2, <1>5, <1>6 DEF IInv, OrderIsOpen
<1>11. OpenIsOrdered'
  <2> SUFFICES ASSUME NEW u \in Threads, NEW i \in DOMAIN scopes'[u], scopes'[u][i].state = "open"
               PROVE  \E n \in DOMAIN order' : /\ order'[n] = scopes'[u][i].writer
                                               /\ scopes'[u][i].m_old_cfg = Before(n)'
    BY DEF OpenIsOrdered
  <2>1. i \in DOMAIN scopes[u] /\ scopes[u][i] = scopes'[u][i]
    BY <1>5, <1>6
  <2>2. PICK n \in DOMAIN order : /\ order[n] = scopes[u][i].writer
                                  /\ scopes[u][i].m_old_cfg = Before(n)
    BY <2>1 DEF IInv, OpenIsOrdered
  <2> QED
    BY <1>2, <2>1, <2>2 DEF Before
<1> QED
  BY <1>2, <1>7, <1>9, <1>10, <1>11 DEF IInv, OrderDiffers, Current, Locked

\* What SetTop does to the scopes, a new value for the last one of a thread.
LEMMA SetTopEffect ==
    ASSUME TypeOK, NEW t \in Threads, scopes[t] # <<>>,
           NEW scope \in Scope, SetTop(t, scope)
    PROVE  /\ scopes' \in [Threads -> Seq(Scope)]
           /\ \A u \in Threads : DOMAIN scopes'[u] = DOMAIN scopes[u]
           /\ Len(scopes[t]) \in DOMAIN scopes[t] /\ scopes'[t][Len(scopes[t])] = scope
           /\ \A u \in Threads : \A i \in DOMAIN scopes[u] :
                 scopes'[u][i] = scopes[u][i] \/ (u = t /\ i = Len(scopes[t]))
<1>1. scopes[t] \in Seq(Scope) /\ Len(scopes[t]) \in DOMAIN scopes[t]
  BY DEF TypeOK
<1>2. [scopes[t] EXCEPT ![Len(scopes[t])] = scope] \in Seq(Scope)
  BY <1>1
<1>3. scopes' = [scopes EXCEPT ![t] = [scopes[t] EXCEPT ![Len(scopes[t])] = scope]]
  BY DEF SetTop
<1> QED
  BY <1>1, <1>2, <1>3 DEF TypeOK

LEMMA OpenContextStep ==
    ASSUME IInv, NEW t \in Threads, OpenContext(t)
    PROVE  IInv'
<1> DEFINE last == Len(scopes[t])
           w == Top(t).writer
           scope == [Top(t) EXCEPT !.m_old_cfg = log_cfg, !.state = "open"]
<1>1. TypeOK /\ lock = None /\ scopes[t] # <<>> /\ SetTop(t, scope)
  BY DEF IInv, OpenContext
<1>2. Top(t) = scopes[t][last] /\ Top(t) \in Scope /\ Top(t).state = "created"
  BY <1>1 DEF Top, Last, TypeOK, OpenContext
<1>3. /\ scope \in Scope /\ scope.writer = w /\ scope.m_old_cfg = log_cfg
      /\ scope.state = "open" /\ w \in Writers
  BY <1>1, <1>2 DEF Scope, TypeOK
<1>4. /\ scopes' \in [Threads -> Seq(Scope)]
      /\ \A u \in Threads : DOMAIN scopes'[u] = DOMAIN scopes[u]
      /\ last \in DOMAIN scopes[t] /\ scopes'[t][last] = scope
      /\ \A u \in Threads : \A i \in DOMAIN scopes[u] :
            scopes'[u][i] = scopes[u][i] \/ (u = t /\ i = last)
  BY <1>1, <1>3, SetTopEffect
<1>5. /\ order' = Append(order, w) /\ order \in Seq(Writers)
      /\ log_cfg' = w /\ UNCHANGED <<lock, using>>
  BY <1>1 DEF OpenContext, TypeOK
<1>6. /\ Len(order') = Len(order) + 1 /\ order' \in Seq(Writers) /\ order' # <<>>
      /\ \A n \in DOMAIN order : n \in DOMAIN order' /\ order'[n] = order[n]
      /\ order'[Len(order')] = w
      /\ \A n \in DOMAIN order' : n \in DOMAIN order \/ n = Len(order) + 1
  BY <1>3, <1>5
<1>7. TypeOK'
  BY <1>1, <1>3, <1>4, <1>5, <1>6 DEF TypeOK, Configs
<1>8. WritersDiffer'
  <2>1. \A u \in Threads : \A i \in DOMAIN scopes[u] : scopes'[u][i].writer = scopes[u][i].writer
    BY <1>2, <1>3, <1>4
  <2> QED
    BY <1>4, <2>1 DEF IInv, WritersDiffer
<1>9. \A n \in DOMAIN order : order[n] # w
  BY <1>2, <1>4 DEF IInv, OrderIsOpen, WritersDiffer
<1>10. OrderDiffers'
  BY <1>6, <1>9 DEF IInv, OrderDiffers
<1>11. OrderIsOpen'
  <2> SUFFICES ASSUME NEW n \in DOMAIN order'
               PROVE  \E u \in Threads : \E i \in DOMAIN scopes'[u] :
                          scopes'[u][i].state = "open" /\ scopes'[u][i].writer = order'[n]
    BY DEF OrderIsOpen
  <2>1. CASE n \in DOMAIN order
    <3>1. PICK u \in Threads : \E i \in DOMAIN scopes[u] :
                scopes[u][i].state = "open" /\ scopes[u][i].writer = order[n]
      BY <2>1 DEF IInv, OrderIsOpen
    <3>2. PICK i \in DOMAIN scopes[u] :
                scopes[u][i].state = "open" /\ scopes[u][i].writer = order[n]
      BY <3>1
    <3>3. ~(u = t /\ i = last)
      BY <1>2, <3>2
    <3>4. i \in DOMAIN scopes'[u] /\ scopes'[u][i] = scopes[u][i] /\ order'[n] = order[n]
      BY <1>4, <1>6, <2>1, <3>3
    <3> QED
      BY <3>2, <3>4
  <2>2. CASE n = Len(order) + 1
    <3>1. order'[n] = w
      BY <1>6, <2>2
    <3>2. last \in DOMAIN scopes'[t] /\ scopes'[t][last].state = "open" /\ scopes'[t][last].writer = w
      BY <1>3, <1>4
    <3> QED
      BY <3>1, <3>2
  <2> QED
    BY <1>6, <2>1, <2>2
<1>12. OpenIsOrdered'
  <2> SUFFICES ASSUME NEW u \in Threads, NEW i \in DOMAIN scopes'[u], scopes'[u][i].state = "open"
               PROVE  \E n \in DOMAIN order' : /\ order'[n] = scopes'[u][i].writer
                                               /\ scopes'[u][i].m_old_cfg = Before(n)'
    BY DEF OpenIsOrdered
  <2>1. CASE u = t /\ i = last
    <3> DEFINE n == Len(order) + 1
    <3>1. n \in DOMAIN order' /\ order'[n] = w
      BY <1>5, <1>6
    <3>2. (IF n = 1 THEN None ELSE order'[n - 1]) = log_cfg
      <4>1. CASE order = <<>>
        BY <4>1 DEF IInv, Current
      <4>2. CASE order # <<>>
        <5>1. n - 1 = Len(order) /\ Len(order) \in DOMAIN order
          BY <1>5, <4>2
        <5> QED
          BY <1>5, <1>6, <4>2, <5>1 DEF IInv, Current, Last
      <4> QED
        BY <4>1, <4>2
    <3> QED
      BY <1>3, <1>4, <2>1, <3>1, <3>2 DEF Before
  <2>2. CASE ~(u = t /\ i = last)
    <3>1. i \in DOMAIN scopes[u] /\ scopes[u][i].state = "open"
      BY <1>4, <2>2
    <3>2. PICK n \in DOMAIN order : /\ order[n] = scopes[u][i].writer
                                    /\ scopes[u][i].m_old_cfg = Before(n)
      BY <3>1 DEF IInv, OpenIsOrdered
    <3>3. Before(n)' = Before(n)
      BY <1>5, <1>6 DEF Before
    <3> QED
      BY <1>4, <1>6, <2>2, <3>1, <3>2, <3>3
  <2> QED
    BY <2>1, <2>2
<1>13. Current'
  BY <1>5, <1>6 DEF Current, Last
<1> QED
  BY <1>1, <1>5, <1>7, <1>8, <1>10, <1>11, <1>12, <1>13 DEF IInv, Locked

LEMMA CloseContextStep ==
    ASSUME IInv, Nested, NEW t \in Threads, CloseContext(t)
    PROVE  IInv'
<1> DEFINE last == Len(scopes[t])
           w == Top(t).writer
           scope == [Top(t) EXCEPT !.state = "closed"]
           end == Len(order)
<1>1. TypeOK /\ lock = None /\ scopes[t] # <<>> /\ SetTop(t, scope) /\ Last(order) = w
  BY DEF IInv, CloseContext
<1>2. /\ Top(t) = scopes[t][last] /\ Top(t) \in Scope /\ Top(t).state = "open"
      /\ last \in DOMAIN scopes[t]
  BY <1>1 DEF Top, Last, TypeOK, CloseContext
<1>3. /\ scope \in Scope /\ scope.writer = w /\ scope.state = "closed" /\ w \in Writers
      /\ Top(t).m_old_cfg \in Configs
  BY <1>1, <1>2 DEF Scope, TypeOK
<1>4. /\ scopes' \in [Threads -> Seq(Scope)]
      /\ \A u \in Threads : DOMAIN scopes'[u] = DOMAIN scopes[u]
      /\ last \in DOMAIN scopes[t] /\ scopes'[t][last] = scope
      /\ \A u \in Threads : \A i \in DOMAIN scopes[u] :
            scopes'[u][i] = scopes[u][i] \/ (u = t /\ i = last)
  BY <1>1, <1>3, SetTopEffect
<1>5. PICK n \in DOMAIN order : order[n] = w /\ Top(t).m_old_cfg = Before(n)
  BY <1>2 DEF IInv, OpenIsOrdered
<1>6. /\ order \in Seq(Writers) /\ end \in DOMAIN order /\ order[end] = w /\ end \in Nat \ {0}
      /\ order # <<>>
  BY <1>1, <1>5 DEF TypeOK, Last
<1>7. n = end /\ Position(w) = end
  BY <1>5, <1>6 DEF IInv, OrderDiffers, Position
<1>8. /\ order' = Front(order) /\ log_cfg' = Before(end) /\ UNCHANGED <<lock, using>>
  BY <1>1, <1>5, <1>6, <1>7, RemoveLast DEF CloseContext
<1>9. /\ order' \in Seq(Writers) /\ Len(order') = end - 1
      /\ \A m \in DOMAIN order' : /\ m \in DOMAIN order /\ order'[m] = order[m]
                                   /\ order[m] # w /\ Before(m)' = Before(m)
  <2>1. /\ order' \in Seq(Writers) /\ Len(order') = end - 1
        /\ \A m \in 1 .. end - 1 : order'[m] = order[m]
    BY <1>6, <1>8, FrontProperties
  <2>2. \A m \in 1 .. end - 1 : m \in DOMAIN order /\ order[m] # w
    BY <1>6 DEF IInv, OrderDiffers
  <2>3. DOMAIN order' = 1 .. end - 1
    BY <1>6, <2>1
  <2>4. \A m \in 1 .. end - 1 : m # 1 => m - 1 \in 1 .. end - 1
    BY <1>6
  <2>5. \A m \in 1 .. end - 1 : Before(m)' = Before(m)
    BY <2>1, <2>4 DEF Before
  <2> QED
    BY <2>1, <2>2, <2>3, <2>5
<1>10. TypeOK'
  BY <1>1, <1>3, <1>4, <1>5, <1>7, <1>8, <1>9 DEF TypeOK
<1>11. WritersDiffer'
  <2>1. \A u \in Threads : \A i \in DOMAIN scopes[u] : scopes'[u][i].writer = scopes[u][i].writer
    BY <1>2, <1>3, <1>4
  <2> QED
    BY <1>4, <2>1 DEF IInv, WritersDiffer
<1>12. OrderDiffers'
  BY <1>9 DEF IInv, OrderDiffers
<1>13. OrderIsOpen'
  <2> SUFFICES ASSUME NEW m \in DOMAIN order'
               PROVE  \E u \in Threads : \E i \in DOMAIN scopes'[u] :
                          scopes'[u][i].state = "open" /\ scopes'[u][i].writer = order'[m]
    BY DEF OrderIsOpen
  <2>1. m \in DOMAIN order /\ order'[m] = order[m] /\ order[m] # w
    BY <1>9
  <2>2. PICK u \in Threads : \E i \in DOMAIN scopes[u] :
            scopes[u][i].state = "open" /\ scopes[u][i].writer = order[m]
    BY <2>1 DEF IInv, OrderIsOpen
  <2>3. PICK i \in DOMAIN scopes[u] : scopes[u][i].state = "open" /\ scopes[u][i].writer = order[m]
    BY <2>2
  <2>4. ~(u = t /\ i = last)
    BY <1>2, <2>1, <2>3
  <2> QED
    BY <1>4, <2>1, <2>3, <2>4
<1>14. OpenIsOrdered'
  <2> SUFFICES ASSUME NEW u \in Threads, NEW i \in DOMAIN scopes'[u], scopes'[u][i].state = "open"
               PROVE  \E m \in DOMAIN order' : /\ order'[m] = scopes'[u][i].writer
                                               /\ scopes'[u][i].m_old_cfg = Before(m)'
    BY DEF OpenIsOrdered
  <2>1. /\ ~(u = t /\ i = last) /\ i \in DOMAIN scopes[u] /\ scopes'[u][i] = scopes[u][i]
    BY <1>3, <1>4
  <2>2. PICK m \in DOMAIN order : /\ order[m] = scopes[u][i].writer
                                  /\ scopes[u][i].m_old_cfg = Before(m)
    BY <2>1 DEF IInv, OpenIsOrdered
  <2>3. scopes[u][i].writer # w
    BY <1>2, <2>1 DEF IInv, WritersDiffer
  <2>4. m \in DOMAIN order'
    BY <1>6, <1>9, <2>2, <2>3
  <2> QED
    BY <1>9, <2>1, <2>2, <2>4
<1>15. Current'
  <2>1. CASE end = 1
    <3>1. order' = <<>>
      BY <1>9, <2>1
    <3> QED
      BY <1>8, <2>1, <3>1 DEF Current, Before
  <2>2. CASE end # 1
    <3>1. order' # <<>> /\ end - 1 \in DOMAIN order' /\ order'[end - 1] = order[end - 1]
      BY <1>6, <1>9, <2>2
    <3> QED
      BY <1>8, <1>9, <2>2, <3>1 DEF Current, Last, Before
  <2> QED
    BY <2>1, <2>2
<1> QED
  BY <1>1, <1>8, <1>10, <1>11, <1>12, <1>13, <1>14, <1>15 DEF IInv, Locked

LEMMA DestroyWriterStep ==
    ASSUME IInv, NEW t \in Threads, DestroyWriter(t)
    PROVE  IInv'
<1> DEFINE last == Len(scopes[t])
<1>1. /\ TypeOK /\ scopes[t] # <<>> /\ UNCHANGED <<log_cfg, lock, using, order>>
      /\ scopes' = [scopes EXCEPT ![t] = Front(@)]
  BY DEF IInv, DestroyWriter
<1>2. scopes[t] \in Seq(Scope) /\ scopes[t][last].state = "closed" /\ last \in Nat \ {0}
  BY <1>1 DEF TypeOK, DestroyWriter, Top, Last
<1>3. /\ Front(scopes[t]) \in Seq(Scope) /\ Len(Front(scopes[t])) = last - 1
      /\ \A i \in 1 .. last - 1 : Front(scopes[t])[i] = scopes[t][i]
  BY <1>1, <1>2, FrontProperties
<1>4. scopes'[t] = Front(scopes[t]) /\ \A u \in Threads \ {t} : scopes'[u] = scopes[u]
  BY <1>1 DEF TypeOK
<1>5. /\ scopes' \in [Threads -> Seq(Scope)]
      /\ \A u \in Threads : \A i \in DOMAIN scopes'[u] :
            i \in DOMAIN scopes[u] /\ scopes'[u][i] = scopes[u][i]
      /\ \A u \in Threads : \A i \in DOMAIN scopes[u] :
            scopes[u][i].state = "open" => i \in DOMAIN scopes'[u]
  <2>1. scopes' \in [Threads -> Seq(Scope)]
    BY <1>1, <1>3 DEF TypeOK
  <2>2. /\ \A i \in DOMAIN scopes'[t] : i \in DOMAIN scopes[t] /\ scopes'[t][i] = scopes[t][i]
        /\ \A i \in DOMAIN scopes[t] : i # last => i \in DOMAIN scopes'[t]
    BY <1>2, <1>3, <1>4
  <2> QED
    BY <1>2, <1>4, <2>1, <2>2
<1>6. TypeOK'
  BY <1>1, <1>5 DEF TypeOK
<1>7. WritersDiffer' /\ OrderIsOpen'
  BY <1>1, <1>5 DEF IInv, WritersDiffer, OrderIsOpen
<1>8. OpenIsOrdered'
  BY <1>1, <1>5 DEF IInv, OpenIsOrdered, Before
<1> QED
  BY <1>1, <1>6, <1>7, <1>8 DEF IInv, OrderDiffers, Current, Locked

LEMMA WriteStep ==
    ASSUME IInv, NEW t \in Threads, BeginWrite(t) \/ EndWrite(t)
    PROVE  IInv'
<1>1. UNCHANGED <<log_cfg, scopes, order>>
  BY DEF BeginWrite, EndWrite
<1>2. TypeOK' /\ Locked'
  BY ConfigAssumption DEF IInv, TypeOK, Locked, BeginWrite, EndWrite, Configs
<1> QED
  BY <1>1, <1>2 DEF IInv, WritersDiffer, OrderDiffers, OrderIsOpen, OpenIsOrdered, Before, Current

LEMMA NextIInv == Nested /\ IInv /\ [Next]_vars => IInv'
<1> SUFFICES ASSUME Nested, IInv, [Next]_vars PROVE IInv'
  OBVIOUS
<1>1. ASSUME NEW t \in Threads, Step(t) PROVE IInv'
  BY <1>1, CreateWriterStep, OpenContextStep, CloseContextStep, DestroyWriterStep, WriteStep DEF Step
<1>2. CASE UNCHANGED vars
  BY <1>2 DEF vars, IInv, TypeOK, WritersDiffer, OrderDiffers, OrderIsOpen, OpenIsOrdered,
              Before, Current, Locked
<1> QED
  BY <1>1, <1>2 DEF Next

THEOREM SpecIInv == ASSUME Nested PROVE Spec => []IInv
<1>1. IInv /\ [Next]_vars => IInv'
  BY NextIInv
<1> QED
  BY InitIInv, <1>1, PTL DEF Spec

\* Types of the configuration, the lock and the scopes (TypeOK).
THEOREM TypeCorrect == ASSUME Nested PROVE Spec => []TypeOK
<1>1. IInv => TypeOK
  BY DEF IInv
<1> QED
  BY <1>1, SpecIInv, PTL

\* A message never goes to a writer outside its context, for any number of
\* threads (WriterIsOpen): write_message and configure exclude each other.
THEOREM MessagesGoToOpenWriters == ASSUME Nested PROVE Spec => []WriterIsOpen
<1>1. IInv => WriterIsOpen
  <2> SUFFICES ASSUME IInv, lock # None PROVE using \in Open \cup {None}
    BY DEF WriterIsOpen
  <2>1. using = log_cfg /\ order \in Seq(Writers)
    BY DEF IInv, Locked, TypeOK
  <2>2. CASE order = <<>>
    BY <2>1, <2>2 DEF IInv, Current
  <2>3. CASE order # <<>>
    <3>1. Len(order) \in DOMAIN order
      BY <2>1, <2>3
    <3> QED
      BY <2>1, <2>3, <3>1 DEF IInv, Current, Open, Last
  <2> QED
    BY <2>2, <2>3
<1> QED
  BY <1>1, SpecIInv, PTL

\* Contexts restore one another (ConfigIsInnermost).
THEOREM InnermostConfig == ASSUME Nested PROVE Spec => []ConfigIsInnermost
<1>1. IInv => ConfigIsInnermost
  <2> SUFFICES ASSUME IInv, NEW t \in Threads, NEW i \in DOMAIN scopes[t],
                      scopes[t][i].state = "open"
               PROVE  scopes[t][i].m_old_cfg = Before(Position(scopes[t][i].writer))
    BY DEF IInv, Current, ConfigIsInnermost, Before
  <2>1. PICK n \in DOMAIN order : /\ order[n] = scopes[t][i].writer
                                  /\ scopes[t][i].m_old_cfg = Before(n)
    BY DEF IInv, OpenIsOrdered
  <2>2. Position(scopes[t][i].writer) = n
    BY <2>1 DEF IInv, OrderDiffers, Position
  <2> QED
    BY <2>1, <2>2
<1> QED
  BY <1>1, SpecIInv, PTL
================================================================================
