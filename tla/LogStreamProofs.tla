---------------------------- MODULE LogStreamProofs ----------------------------
(***************************************************************************)
(* LogStream, for any number of threads and messages and any sizes of the  *)
(* buffers, of the pipe and of a message: nothing is lost on the way, the  *)
(* stream implements LogChannel, and what LogChannel promises holds of it. *)
(***************************************************************************)
EXTENDS LogStream, FiniteSetTheorems, SequenceTheorems, TLAPS

--------------------------------------------------------------------------------
(* Division and multiplication. *)

LEMMA Division ==
    ASSUME NEW n \in Nat, NEW d \in Nat \ {0}
    PROVE  /\ n \div d \in Nat /\ n % d \in 0 .. d - 1
           /\ n = ((n \div d) * d) + (n % d)
<1>1. n \div d \in Nat /\ n % d \in 0 .. d - 1
  OBVIOUS
<1>2. n = ((n \div d) * d) + (n % d)
  BY SMT
<1> QED
  BY <1>1, <1>2

LEMMA Products ==
    ASSUME NEW a \in Nat, NEW b \in Nat, NEW d \in Nat
    PROVE  /\ a * d \in Nat /\ a <= b => a * d <= b * d
           /\ (a + b) * d = (a * d) + (b * d)
           /\ (a + 1) * d = (a * d) + d
  BY Z3

LEMMA Multiples == \A a, b, d \in Nat : b <= a => b * d \in Nat /\ b * d <= a * d
BY Z3

LEMMA Regrouped == \A a, b, c \in Nat : b + 1 = c => (a + b) + 1 = a + c
OBVIOUS

\* There is one way to divide with a remainder.
LEMMA Quotient ==
    ASSUME NEW d \in Nat \ {0}, NEW q \in Nat, NEW r \in 0 .. d - 1
    PROVE  /\ (q * d) + r \in Nat
           /\ ((q * d) + r) \div d = q /\ ((q * d) + r) % d = r
<1> DEFINE n == (q * d) + r
           a == n \div d
           b == n % d
<1>1. n \in Nat
  BY Products
<1>2. a \in Nat /\ b \in 0 .. d - 1 /\ n = (a * d) + b
  BY <1>1, Division
<1>3. (q * d) + r = (a * d) + b
  BY <1>2
<1> HIDE DEF a, b, n
<1>4. ~(a + 1 <= q)
  BY <1>2, <1>3, Products
<1>5. ~(q + 1 <= a)
  BY <1>2, <1>3, Products
<1>6. a = q
  BY <1>2, <1>4, <1>5
<1>7. b = r
  <2>1. q * d \in Nat
    BY Products
  <2> QED
    BY <1>2, <1>3, <1>6, <2>1
<1> QED
  BY <1>1, <1>6, <1>7 DEF n, a, b

LEMMA Shift ==
    ASSUME NEW d \in Nat \ {0}, NEW q \in Nat, NEW n \in Nat
    PROVE  /\ ((q * d) + n) \div d = q + (n \div d)
           /\ ((q * d) + n) % d = n % d
<1> DEFINE a == n \div d
           b == n % d
<1>1. a \in Nat /\ b \in 0 .. d - 1 /\ n = (a * d) + b
  BY Division
<1>2. q * d \in Nat /\ a * d \in Nat /\ (q + a) * d = (q * d) + (a * d)
  BY <1>1, Products
<1>3. (q * d) + n = ((q + a) * d) + b
  <2> HIDE DEF a, b
  <2> QED
    BY <1>1, <1>2
<1>4. (((q + a) * d) + b) \div d = q + a /\ (((q + a) * d) + b) % d = b
  <2> HIDE DEF a, b
  <2> QED
    BY <1>1, Quotient
<1> QED
  BY <1>3, <1>4

LEMMA Predecessor ==
    ASSUME NEW d \in Nat \ {0}, NEW n \in Nat, n % d # 0
    PROVE  n - 1 \in Nat /\ (n - 1) \div d = n \div d
<1> DEFINE a == n \div d
           b == n % d
<1>1. a \in Nat /\ b \in 0 .. d - 1 /\ n = (a * d) + b /\ b # 0
  BY Division
<1> HIDE DEF a, b
<1>2. a * d \in Nat
  BY <1>1, Products
<1>3. n - 1 = (a * d) + (b - 1) /\ b - 1 \in 0 .. d - 1
  BY <1>1, <1>2
<1>4. ((a * d) + (b - 1)) \div d = a
  BY <1>1, <1>3, Quotient
<1>5. n - 1 \in Nat
  BY <1>1, <1>2
<1> QED
  BY <1>3, <1>4, <1>5 DEF a

LEMMA Below ==
    ASSUME NEW d \in Nat \ {0}, NEW n \in Nat, NEW q \in Nat, n < q * d
    PROVE  n \div d < q
<1> DEFINE a == n \div d
           b == n % d
<1>1. a \in Nat /\ b \in 0 .. d - 1 /\ n = (a * d) + b
  BY Division
<1> HIDE DEF a, b
<1>2. ~(q <= a)
  BY <1>1, Products
<1>3. a < q
  BY <1>1, <1>2
<1> QED
  BY <1>3 DEF a

--------------------------------------------------------------------------------
(* The inductive invariant. *)

\* The stream of all pieces that the logged messages come to, from piece 0 on.
Piece(n) == <<logged[(n \div Pieces) + 1], (n % Pieces) + 1>>

\* What is between the receiver and the serializer.
Flow == (partial \o pipe) \o chunk
Start == Len(consumed) * Pieces

\* The flow is the stream from Start on, but for the noise at place z.
Rank(j, z) == Start + (IF j < z THEN j - 1 ELSE j - 2)
InStream(z) == \A j \in 1 .. Len(Flow) : j # z => Flow[j] = Piece(Rank(j, z))

NoiseAt(z) == IF noise THEN /\ z \in (Len(partial) + 1) .. (Len(partial) + Len(pipe))
                            /\ Flow[z] = Noise
              ELSE z = Len(Flow) + 1

InFlight == listening => \E z \in 1 .. Len(Flow) + 1 : NoiseAt(z) /\ InStream(z)

\* What was produced of the stream so far.
Produced == Start + (Len(Flow) - (IF noise THEN 1 ELSE 0))

Complete == listening =>
    /\ lock # None => Produced = ((Len(logged) - 1) * Pieces) + serialized
    /\ lock = None /\ process = "running" => Produced = Len(logged) * Pieces
    /\ Produced <= Len(logged) * Pieces

Delivered == /\ Len(consumed) <= Len(logged)
             /\ \A k \in 1 .. Len(consumed) : consumed[k] = logged[k]

Numbered == \A t \in Threads : \A k \in DOMAIN logged :
                logged[k][1] = t => logged[k][2] <= Count(t)

Control == /\ lock # None => process = "running" /\ logged # <<>>
           /\ lock = None => chunk = <<>> /\ serialized = 0
           /\ listening => process # "aborted"
           /\ handling => listening

IInv == TypeOK /\ Control /\ Numbered /\ Delivered /\ InFlight /\ Complete

--------------------------------------------------------------------------------
(* The flow and the stream. *)

LEMMA Sizes == /\ Pieces \in Nat \ {0} /\ WriteBuffer \in Nat \ {0} /\ ReadBuffer \in Nat \ {0}
               /\ PipeCapacity \in Nat \ {0} /\ MaxMessages \in Nat \ {0}
BY SizesAssumption

LEMMA Concatenation ==
    ASSUME NEW S, NEW s \in Seq(S), NEW t \in Seq(S)
    PROVE  /\ s \o t \in Seq(S) /\ Len(s \o t) = Len(s) + Len(t)
           /\ \A j \in 1 .. Len(s) + Len(t) :
                 (s \o t)[j] = IF j <= Len(s) THEN s[j] ELSE t[j - Len(s)]
OBVIOUS

LEMMA Part ==
    ASSUME NEW S, NEW s \in Seq(S), NEW i \in Nat \ {0}, NEW k \in Nat, i <= k + 1, k <= Len(s)
    PROVE  /\ SubSeq(s, i, k) \in Seq(S) /\ Len(SubSeq(s, i, k)) = k - i + 1
           /\ \A j \in 1 .. k - i + 1 : SubSeq(s, i, k)[j] = s[i + j - 1]
OBVIOUS

LEMMA FunctionIsSequence ==
    ASSUME NEW S, NEW n \in Nat, NEW f \in [1 .. n -> S]
    PROVE  f \in Seq(S) /\ Len(f) = n
OBVIOUS

LEMMA ThreeParts ==
    ASSUME NEW S, NEW a \in Seq(S), NEW b \in Seq(S), NEW c \in Seq(S)
    PROVE  /\ (a \o b) \o c \in Seq(S) /\ Len((a \o b) \o c) = Len(a) + Len(b) + Len(c)
           /\ \A j \in 1 .. Len(a) : ((a \o b) \o c)[j] = a[j]
           /\ \A j \in 1 .. Len(b) : ((a \o b) \o c)[Len(a) + j] = b[j]
           /\ \A j \in 1 .. Len(c) : ((a \o b) \o c)[Len(a) + Len(b) + j] = c[j]
<1>1. Len(a) \in Nat /\ Len(b) \in Nat /\ Len(c) \in Nat
  OBVIOUS
<1> DEFINE ab == a \o b
<1>2. /\ ab \in Seq(S) /\ Len(ab) = Len(a) + Len(b)
      /\ \A j \in 1 .. Len(a) + Len(b) : ab[j] = IF j <= Len(a) THEN a[j] ELSE b[j - Len(a)]
  BY Concatenation
<1> HIDE DEF ab
<1> DEFINE abc == ab \o c
<1>3. /\ abc \in Seq(S) /\ Len(abc) = Len(ab) + Len(c)
      /\ \A j \in 1 .. Len(ab) + Len(c) : abc[j] = IF j <= Len(ab) THEN ab[j] ELSE c[j - Len(ab)]
  <2>1. ab \in Seq(S)
    BY <1>2
  <2> QED
    BY <2>1, Concatenation
<1> HIDE DEF abc
<1>4. \A j \in 1 .. Len(a) : abc[j] = a[j]
  BY <1>1, <1>2, <1>3
<1>5. \A j \in 1 .. Len(b) : abc[Len(a) + j] = b[j]
  BY <1>1, <1>2, <1>3
<1>6. ASSUME NEW j \in 1 .. Len(c) PROVE abc[Len(a) + Len(b) + j] = c[j]
  <2> DEFINE k == Len(a) + Len(b) + j
  <2>1. k \in 1 .. Len(ab) + Len(c) /\ ~(k <= Len(ab)) /\ k - Len(ab) = j
    BY <1>1, <1>2
  <2>2. abc[k] = c[k - Len(ab)]
    BY <1>3, <2>1
  <2> QED
    BY <2>1, <2>2
<1> QED
  BY <1>2, <1>3, <1>4, <1>5, <1>6 DEF ab, abc

LEMMA FlowFacts ==
    ASSUME TypeOK
    PROVE  /\ Flow \in Seq(AllPieces) /\ partial \o pipe \in Seq(AllPieces)
           /\ Len(Flow) = Len(partial) + Len(pipe) + Len(chunk)
           /\ Len(partial) \in Nat /\ Len(pipe) \in Nat /\ Len(chunk) \in Nat
           /\ \A j \in 1 .. Len(partial) : Flow[j] = partial[j]
           /\ \A j \in 1 .. Len(pipe) : Flow[Len(partial) + j] = pipe[j]
           /\ \A j \in 1 .. Len(chunk) : Flow[Len(partial) + Len(pipe) + j] = chunk[j]
<1>1. partial \in Seq(AllPieces) /\ pipe \in Seq(AllPieces) /\ chunk \in Seq(AllPieces)
  BY DEF TypeOK
<1>2. Len(partial) \in Nat /\ Len(pipe) \in Nat /\ Len(chunk) \in Nat
  BY <1>1
<1>3. partial \o pipe \in Seq(AllPieces)
  BY <1>1
<1> QED
  BY <1>1, <1>2, <1>3, ThreeParts DEF Flow

LEMMA StartFacts ==
    ASSUME TypeOK
    PROVE  /\ Start \in Nat /\ Len(consumed) \in Nat /\ Len(logged) \in Nat
           /\ Len(logged) * Pieces \in Nat
           /\ logged # <<>> => (Len(logged) - 1) * Pieces = (Len(logged) * Pieces) - Pieces
<1>1. Len(consumed) \in Nat /\ Len(logged) \in Nat /\ (logged # <<>> => Len(logged) - 1 \in Nat)
  BY DEF TypeOK
<1>2. Len(consumed) * Pieces \in Nat /\ Len(logged) * Pieces \in Nat
  BY <1>1, Sizes, Products
<1>3. ASSUME logged # <<>> PROVE (Len(logged) - 1) * Pieces = (Len(logged) * Pieces) - Pieces
  <2>1. /\ ((Len(logged) - 1) + 1) * Pieces = ((Len(logged) - 1) * Pieces) + Pieces
        /\ (Len(logged) - 1) * Pieces \in Nat
    BY <1>1, <1>3, Sizes, Products
  <2>2. (Len(logged) - 1) + 1 = Len(logged)
    BY <1>1
  <2> QED
    BY <1>2, <2>1, <2>2, Sizes
<1> QED
  BY <1>1, <1>2, <1>3 DEF Start

\* Nothing is in the flow that was not logged.
LEMMA RankIsLogged ==
    ASSUME TypeOK, Complete, listening, NEW z \in 1 .. Len(Flow) + 1, NoiseAt(z),
           NEW j \in 1 .. Len(Flow), j # z
    PROVE  Rank(j, z) \in Nat /\ Rank(j, z) < Len(logged) * Pieces
<1>1. Start \in Nat /\ Len(logged) * Pieces \in Nat /\ Len(Flow) \in Nat
  BY StartFacts, FlowFacts
<1>2. Start + (Len(Flow) - (IF noise THEN 1 ELSE 0)) <= Len(logged) * Pieces
  BY DEF Complete, Produced
<1>3. IF noise THEN z <= Len(Flow) ELSE z = Len(Flow) + 1
  BY FlowFacts DEF NoiseAt
<1> DEFINE all == Len(logged) * Pieces
<1> HIDE DEF all
<1>4. Start \in Nat /\ all \in Nat /\ Start + (Len(Flow) - (IF noise THEN 1 ELSE 0)) <= all
  BY <1>1, <1>2 DEF all
<1>5. Rank(j, z) \in Nat /\ Rank(j, z) < all
  BY <1>1, <1>3, <1>4 DEF Rank
<1> QED
  BY <1>5 DEF all

LEMMA PieceOf ==
    ASSUME NEW q \in Nat, NEW r \in 0 .. Pieces - 1
    PROVE  Piece((q * Pieces) + r) = <<logged[q + 1], r + 1>>
BY Sizes, Quotient DEF Piece

--------------------------------------------------------------------------------
(* The numbers of the messages of a thread. *)

LEMMA CountIsNat == ASSUME logged \in Seq(Messages), NEW t PROVE Count(t) \in Nat
<1>1. IsFiniteSet(1 .. Len(logged))
  BY FS_Interval
<1>2. IsFiniteSet({k \in DOMAIN logged : logged[k][1] = t})
  BY <1>1, FS_Subset
<1> QED
  BY <1>2, FS_CardinalityType DEF Count

LEMMA CountGrows ==
    ASSUME logged \in Seq(Messages), NEW m \in Messages, logged' = Append(logged, m), NEW t
    PROVE  Count(t)' = IF m[1] = t THEN Count(t) + 1 ELSE Count(t)
<1> DEFINE mine == {k \in DOMAIN logged : logged[k][1] = t}
<1>1. /\ DOMAIN logged' = DOMAIN logged \cup {Len(logged) + 1}
      /\ Len(logged) + 1 \notin DOMAIN logged
      /\ \A k \in DOMAIN logged : logged'[k] = logged[k]
      /\ logged'[Len(logged) + 1] = m
  OBVIOUS
<1>2. mine' = IF m[1] = t THEN mine \cup {Len(logged) + 1} ELSE mine
  BY <1>1
<1>3. IsFiniteSet(mine)
  <2>1. IsFiniteSet(1 .. Len(logged)) /\ DOMAIN logged = 1 .. Len(logged)
    BY FS_Interval
  <2> QED
    BY <2>1, FS_Subset
<1>4. Len(logged) + 1 \notin mine
  BY <1>1
<1>5. Count(t) = Cardinality(mine) /\ Count(t)' = Cardinality(mine')
  BY DEF Count
<1> HIDE DEF mine
<1>6. Cardinality(mine \cup {Len(logged) + 1}) = Cardinality(mine) + 1
  BY <1>3, <1>4, FS_AddElement
<1> QED
  BY <1>2, <1>5, <1>6

\* A new message differs from all before it.
LEMMA NewMessage ==
    ASSUME logged \in Seq(Messages), Numbered, NEW t \in Threads, Count(t) < MaxMessages
    PROVE  /\ <<t, Count(t) + 1>> \in Messages
           /\ \A k \in DOMAIN logged : logged[k] # <<t, Count(t) + 1>>
<1>1. Count(t) \in Nat
  BY CountIsNat
<1>2. <<t, Count(t) + 1>> \in Messages
  BY <1>1, Sizes DEF Messages
<1>3. ASSUME NEW k \in DOMAIN logged, logged[k] = <<t, Count(t) + 1>> PROVE FALSE
  <2>1. Count(t) + 1 <= Count(t)
    BY <1>3 DEF Numbered
  <2> QED
    BY <1>1, <2>1
<1> QED
  BY <1>2, <1>3

LEMMA NumberedNext ==
    ASSUME logged \in Seq(Messages), Numbered, NEW t \in Threads, Count(t) < MaxMessages,
           logged' = Append(logged, <<t, Count(t) + 1>>)
    PROVE  Numbered'
<1> DEFINE m == <<t, Count(t) + 1>>
<1>1. m \in Messages /\ m[1] = t /\ m[2] = Count(t) + 1
  BY NewMessage
<1>2. \A u : Count(u) \in Nat /\ Count(u)' = IF m[1] = u THEN Count(u) + 1 ELSE Count(u)
  BY <1>1, CountIsNat, CountGrows
<1> SUFFICES ASSUME NEW u \in Threads, NEW k \in DOMAIN logged', logged'[k][1] = u
             PROVE  logged'[k][2] <= Count(u)'
  BY DEF Numbered
<1>3. Count(u) \in Nat /\ Count(u)' \in Nat /\ Count(u) <= Count(u)'
  BY <1>2
<1>4. CASE k \in DOMAIN logged
  <2>1. logged'[k] = logged[k] /\ logged[k][2] \in Nat
    BY <1>1, <1>4 DEF Messages
  <2>2. logged[k][2] <= Count(u)
    BY <1>4, <2>1 DEF Numbered
  <2> QED
    BY <1>3, <2>1, <2>2
<1>5. CASE k = Len(logged) + 1
  <2>1. logged'[k] = m
    BY <1>1, <1>5
  <2>2. u = t
    BY <1>1, <2>1
  <2> QED
    BY <1>1, <1>2, <2>1, <2>2
<1> QED
  BY <1>4, <1>5

--------------------------------------------------------------------------------
(* The steps of the client. *)

LEMMA LogMessageStep == ASSUME IInv, NEW t \in Threads, LogMessage(t) PROVE IInv'
<1> DEFINE m == <<t, Count(t) + 1>>
<1>1. /\ TypeOK /\ Control /\ Numbered /\ Delivered /\ InFlight /\ Complete
      /\ process = "running" /\ lock = None /\ lock' = t /\ Count(t) < MaxMessages
      /\ logged' = Append(logged, m) /\ serialized' = 0
      /\ UNCHANGED <<noise, process, chunk, pipe, readerVars>>
  BY DEF IInv, LogMessage
<1>2. m \in Messages /\ logged \in Seq(Messages) /\ t # None
  BY <1>1, NewMessage, SizesAssumption DEF TypeOK
<1>3. /\ logged' \in Seq(Messages) /\ logged' # <<>> /\ Len(logged') = Len(logged) + 1
      /\ \A k \in 1 .. Len(logged) : logged'[k] = logged[k]
      /\ Len(logged) \in Nat
  BY <1>1, <1>2
<1>4. TypeOK'
  BY <1>1, <1>3, Sizes DEF TypeOK, readerVars
<1>5. Control'
  BY <1>1, <1>2, <1>3 DEF Control, readerVars
<1>6. Numbered'
  BY <1>1, <1>2, NumberedNext
<1>7. Delivered'
  <2>1. consumed' = consumed /\ Len(consumed) \in Nat /\ Len(consumed) <= Len(logged)
    BY <1>1 DEF readerVars, TypeOK, Delivered
  <2> QED
    BY <1>1, <1>3, <2>1 DEF Delivered
<1>8. Flow' = Flow /\ Start' = Start /\ Produced' = Produced /\ listening' = listening
  BY <1>1 DEF Flow, Start, Produced, readerVars
<1>9. InFlight'
  <2> SUFFICES ASSUME listening PROVE \E z \in 1 .. Len(Flow) + 1 : NoiseAt(z)' /\ InStream(z)'
    BY <1>8 DEF InFlight
  <2>1. PICK z \in 1 .. Len(Flow) + 1 : NoiseAt(z) /\ InStream(z)
    BY <1>1 DEF InFlight
  <2>2. NoiseAt(z)'
    BY <1>1, <1>8, <2>1 DEF NoiseAt, readerVars
  <2>3. ASSUME NEW j \in 1 .. Len(Flow), j # z PROVE Flow[j] = Piece(Rank(j, z))'
    <3> DEFINE n == Rank(j, z)
    <3>1. n \in Nat /\ n < Len(logged) * Pieces
      BY <1>1, <2>1, <2>3, RankIsLogged
    <3>2. Flow[j] = Piece(n)
      BY <2>1, <2>3 DEF InStream
    <3>3. n' = n
      BY <1>8 DEF Rank
    <3>4. logged'[(n \div Pieces) + 1] = logged[(n \div Pieces) + 1]
      <4> HIDE DEF n
      <4>1. n \div Pieces \in Nat /\ n \div Pieces < Len(logged)
        BY <1>3, <3>1, Sizes, Division, Below
      <4> QED
        BY <1>3, <4>1
    <3> QED
      BY <3>2, <3>3, <3>4 DEF Piece
  <2> QED
    BY <1>8, <2>1, <2>2, <2>3 DEF InStream
<1>10. Complete'
  <2> SUFFICES ASSUME listening PROVE /\ Produced = ((Len(logged') - 1) * Pieces) + 0
                                      /\ Produced <= Len(logged') * Pieces
    BY <1>1, <1>2, <1>8 DEF Complete
  <2>1. Produced = Len(logged) * Pieces
    BY <1>1 DEF Complete
  <2>2. /\ Len(logged') - 1 = Len(logged) /\ Len(logged) * Pieces \in Nat
        /\ Len(logged') * Pieces = (Len(logged) * Pieces) + Pieces
    BY <1>3, Sizes, Products
  <2> QED
    BY <2>1, <2>2, Sizes
<1> QED
  BY <1>4, <1>5, <1>6, <1>7, <1>9, <1>10 DEF IInv

LEMMA SerializeStep == ASSUME IInv, Serialize PROVE IInv'
<1> DEFINE m == Last(logged)
           added == serialized' - serialized
<1>1. /\ TypeOK /\ Control /\ Numbered /\ Delivered /\ InFlight /\ Complete
      /\ lock # None /\ chunk = <<>> /\ serialized < Pieces
      /\ serialized' = Least(serialized + WriteBuffer, Pieces)
      /\ chunk' = PiecesOf(m, serialized + 1, serialized')
      /\ UNCHANGED <<noise, process, lock, logged, pipe, readerVars>>
  BY DEF IInv, Serialize
<1>2. /\ serialized \in 0 .. Pieces - 1 /\ serialized' \in 1 .. Pieces
      /\ added \in 1 .. WriteBuffer /\ added \in Nat /\ serialized' = serialized + added
  BY <1>1, Sizes DEF Least, TypeOK
<1>3. /\ m = logged[Len(logged)] /\ m \in Messages /\ Len(logged) \in Nat \ {0}
  BY <1>1 DEF Last, TypeOK, Control
<1>4. /\ DOMAIN chunk' = 1 .. added
      /\ \A k \in 1 .. added : chunk'[k] = <<m, serialized + k>>
  BY <1>1, <1>2 DEF PiecesOf
<1>5. chunk' \in Seq(AllPieces) /\ Len(chunk') = added
  <2> HIDE DEF added
  <2>1. \A k \in 1 .. added : serialized + k \in 1 .. Pieces
    BY <1>2, Sizes
  <2>2. \A k \in 1 .. added : <<m, serialized + k>> \in AllPieces
    BY <1>3, <2>1 DEF AllPieces
  <2>3. chunk' = [k \in 1 .. added |-> <<m, serialized + k>>]
    <3>1. chunk' = [k \in DOMAIN chunk' |-> chunk'[k]]
      BY <1>1 DEF PiecesOf
    <3> QED
      BY <1>4, <3>1
  <2>4. chunk' \in [1 .. added -> AllPieces]
    BY <2>2, <2>3
  <2> QED
    BY <1>2, <2>4, FunctionIsSequence
<1>6. TypeOK'
  BY <1>1, <1>2, <1>5 DEF TypeOK, readerVars
<1> HIDE DEF added
<1>7. Control' /\ Numbered' /\ Delivered'
  BY <1>1 DEF Control, Numbered, Delivered, Count, readerVars
<1>8. /\ Len(Flow') = Len(Flow) + added /\ Len(Flow) \in Nat
      /\ \A j \in 1 .. Len(Flow) : Flow'[j] = Flow[j]
      /\ \A j \in 1 .. added : Flow'[Len(Flow) + j] = chunk'[j]
  <2> DEFINE read == partial \o pipe
  <2>1. read \in Seq(AllPieces) /\ read' = read
    BY <1>1, FlowFacts DEF readerVars
  <2>2. Flow' = read \o chunk' /\ Flow = read \o <<>>
    BY <1>1, <2>1 DEF Flow
  <2> HIDE DEF read
  <2>3. Flow = read
    BY <2>1, <2>2
  <2> QED
    BY <1>2, <1>5, <2>1, <2>2, <2>3, Concatenation
<1>9. Start' = Start /\ listening' = listening /\ noise' = noise /\ logged' = logged
  BY <1>1 DEF Start, readerVars
<1>10. /\ Start \in Nat /\ Len(logged) * Pieces \in Nat
       /\ (Len(logged) - 1) * Pieces = (Len(logged) * Pieces) - Pieces
       /\ (Len(logged) - 1) * Pieces \in Nat
  BY <1>1, <1>3, StartFacts, Sizes, Products DEF Control
<1>11. Complete'
  <2> SUFFICES ASSUME listening
               PROVE  /\ Produced' = ((Len(logged) - 1) * Pieces) + serialized'
                      /\ Produced' <= Len(logged) * Pieces
    BY <1>1, <1>9 DEF Complete
  <2>1. Produced' = Produced + added
    <3>1. Len(Flow') = Len(Flow) + added /\ Len(Flow) \in Nat /\ added \in Nat /\ Start \in Nat
      BY <1>2, <1>8, <1>10
    <3> QED
      BY <1>9, <3>1 DEF Produced
  <2>2. Produced = ((Len(logged) - 1) * Pieces) + serialized
    BY <1>1 DEF Complete
  <2> QED
    BY <1>2, <1>10, <2>1, <2>2, Sizes
<1>12. InFlight'
  <2> SUFFICES ASSUME listening PROVE \E z \in 1 .. Len(Flow') + 1 : NoiseAt(z)' /\ InStream(z)'
    BY <1>9 DEF InFlight
  <2>1. PICK z \in 1 .. Len(Flow) + 1 : NoiseAt(z) /\ InStream(z)
    BY <1>1 DEF InFlight
  <2>2. PICK y : y = IF noise THEN z ELSE Len(Flow') + 1
    OBVIOUS
  <2>3. y \in 1 .. Len(Flow') + 1 /\ (noise => y = z /\ z <= Len(Flow)) /\ (~noise => z = Len(Flow) + 1)
    <3>1. Len(Flow') = Len(Flow) + added /\ Len(Flow) \in Nat /\ added \in Nat
      BY <1>2, <1>8
    <3>2. Len(partial) \in Nat /\ Len(pipe) \in Nat /\ Len(partial) + Len(pipe) <= Len(Flow)
      BY <1>1, FlowFacts
    <3> QED
      BY <2>2, <2>1, <3>1, <3>2 DEF NoiseAt
  <2>4. NoiseAt(y)'
    <3>1. partial' = partial /\ pipe' = pipe /\ noise' = noise
      BY <1>1 DEF readerVars
    <3>2. CASE noise
      <4>1. y = z /\ z \in 1 .. Len(Flow) /\ Flow'[z] = Flow[z]
        BY <1>8, <2>1, <2>3, <3>2
      <4> QED
        BY <2>1, <3>1, <3>2, <4>1 DEF NoiseAt
    <3>3. CASE ~noise
      BY <2>2, <3>1, <3>3 DEF NoiseAt
    <3> QED
      BY <3>2, <3>3
  <2>5. ASSUME NEW j \in 1 .. Len(Flow'), j # y PROVE Flow'[j] = Piece(Start + (IF j < y THEN j - 1 ELSE j - 2))
    <3>1. CASE j <= Len(Flow)
      <4>1. j \in 1 .. Len(Flow) /\ j # z /\ (j < y <=> j < z)
        <5>1. j \in 1 .. Len(Flow) /\ Len(Flow) \in Nat
          BY <1>2, <1>8, <3>1
        <5>2. CASE noise
          BY <2>3, <2>5, <5>1, <5>2
        <5>3. CASE ~noise
          <6>1. y = Len(Flow') + 1 /\ z = Len(Flow) + 1 /\ Len(Flow') = Len(Flow) + added /\ added \in Nat
            BY <1>2, <1>8, <2>2, <2>3, <5>3
          <6> QED
            BY <5>1, <6>1
        <5> QED
          BY <5>2, <5>3
      <4>2. Flow[j] = Piece(Rank(j, z))
        BY <2>1, <4>1 DEF InStream
      <4> QED
        BY <1>8, <4>1, <4>2 DEF Rank
    <3>2. CASE Len(Flow) < j
      <4> DEFINE k == j - Len(Flow)
      <4>1. k \in 1 .. added /\ j = Len(Flow) + k
        BY <1>2, <1>8, <3>2
      <4>2. Flow'[j] = <<m, serialized + k>>
        BY <1>4, <1>8, <4>1
      <4>3. Start + (IF j < y THEN j - 1 ELSE j - 2) = Produced + (k - 1)
        <5>1. k \in Nat \ {0} /\ j = Len(Flow) + k /\ Len(Flow) \in Nat /\ Start \in Nat
          BY <1>2, <1>8, <1>10, <4>1
        <5>2. IF noise THEN y \in Nat /\ y <= Len(Flow) ELSE y \in Nat /\ j < y
          <6> HIDE DEF k
          <6>1. CASE noise
            BY <2>3, <6>1
          <6>2. CASE ~noise
            BY <1>2, <1>8, <2>2, <2>5, <6>2
          <6> QED
            BY <6>1, <6>2
        <5> HIDE DEF k
        <5>3. CASE noise
          BY <5>1, <5>2, <5>3 DEF Produced
        <5>4. CASE ~noise
          BY <5>1, <5>2, <5>4 DEF Produced
        <5> QED
          BY <5>3, <5>4
      <4>4. Produced = ((Len(logged) - 1) * Pieces) + serialized
        BY <1>1 DEF Complete
      <4>5. k \in Nat /\ serialized \in Nat
        BY <1>2, <4>1
      <4> HIDE DEF k
      <4>6. Produced + (k - 1) = ((Len(logged) - 1) * Pieces) + (serialized + k - 1)
        BY <1>10, <4>5, <4>4
      <4>7. serialized + k - 1 \in 0 .. Pieces - 1
        BY <1>2, <4>1, Sizes
      <4>8. Piece(((Len(logged) - 1) * Pieces) + (serialized + k - 1))
              = <<logged[(Len(logged) - 1) + 1], (serialized + k - 1) + 1>>
        <5>1. Len(logged) - 1 \in Nat
          BY <1>3
        <5> QED
          BY <4>7, <5>1, PieceOf
      <4>9. (Len(logged) - 1) + 1 = Len(logged) /\ (serialized + k - 1) + 1 = serialized + k
        BY <1>3, <4>5
      <4> QED
        BY <1>3, <4>2, <4>3, <4>6, <4>8, <4>9
    <3> QED
      BY <1>8, <3>1, <3>2
  <2>6. InStream(y)'
    BY <1>9, <2>5 DEF InStream, Rank, Piece
  <2> QED
    BY <2>3, <2>4, <2>6
<1> QED
  BY <1>6, <1>7, <1>11, <1>12 DEF IInv

LEMMA FlowKept ==
    ASSUME TypeOK, InFlight, Flow' = Flow, Len(pipe) <= Len(pipe'), pipe' \in Seq(AllPieces),
           UNCHANGED <<consumed, logged, noise, listening, partial>>
    PROVE  InFlight' /\ Start' = Start /\ Produced' = Produced
<1>1. Start' = Start /\ Produced' = Produced
  BY DEF Start, Produced
<1> SUFFICES ASSUME listening PROVE \E z \in 1 .. Len(Flow) + 1 : NoiseAt(z)' /\ InStream(z)'
  BY <1>1 DEF InFlight
<1>2. PICK z \in 1 .. Len(Flow) + 1 : NoiseAt(z) /\ InStream(z)
  BY DEF InFlight
<1>3. NoiseAt(z)'
  <2>1. Len(partial) \in Nat /\ Len(pipe) \in Nat /\ Len(pipe') \in Nat
    BY FlowFacts
  <2> QED
    BY <1>2, <2>1 DEF NoiseAt
<1>4. InStream(z)'
  BY <1>1, <1>2 DEF InStream, Rank, Piece
<1> QED
  BY <1>2, <1>3, <1>4

LEMMA WriteStep == ASSUME IInv, Write PROVE IInv'
<1>1. /\ TypeOK /\ Control /\ Numbered /\ Delivered /\ InFlight /\ Complete
      /\ lock # None /\ chunk # <<>>
      /\ UNCHANGED <<noise, process, lock, logged, serialized, readerVars>>
  BY DEF IInv, Write
<1>2. PICK n \in 1 .. Least(Len(chunk), PipeCapacity - Len(pipe)) :
          /\ pipe' = pipe \o SubSeq(chunk, 1, n)
          /\ chunk' = SubSeq(chunk, n + 1, Len(chunk))
  BY DEF Write
<1> DEFINE written == SubSeq(chunk, 1, n)
           rest == SubSeq(chunk, n + 1, Len(chunk))
<1>3. /\ partial \in Seq(AllPieces) /\ pipe \in Seq(AllPieces) /\ chunk \in Seq(AllPieces)
      /\ Len(chunk) \in Nat /\ Len(pipe) \in Nat /\ Len(chunk) <= WriteBuffer
      /\ Len(pipe) <= PipeCapacity
  BY <1>1 DEF TypeOK
<1>4. n \in Nat /\ 1 <= n /\ n <= Len(chunk) /\ n + Len(pipe) <= PipeCapacity
  BY <1>2, <1>3, Sizes DEF Least
<1>5. /\ written \in Seq(AllPieces) /\ Len(written) = n
      /\ rest \in Seq(AllPieces) /\ Len(rest) = Len(chunk) - n
      /\ written \o rest = chunk
  <2>1. written \in Seq(AllPieces) /\ Len(written) = n /\ rest \in Seq(AllPieces) /\ Len(rest) = Len(chunk) - n
    BY <1>3, <1>4
  <2>2. /\ 1 \in 1 .. Len(chunk) + 1 /\ n \in 1 - 1 .. Len(chunk) /\ Len(chunk) \in n .. Len(chunk)
    BY <1>3, <1>4
  <2>3. written \o rest = SubSeq(chunk, 1, Len(chunk))
    BY <1>3, <2>2, ConcatAdjacentSubSeq
  <2>4. SubSeq(chunk, 1, Len(chunk)) = chunk
    BY <1>3, SubSeqFull
  <2> QED
    BY <2>1, <2>3, <2>4
<1> HIDE DEF written, rest
<1>6. pipe' = pipe \o written /\ chunk' = rest
  BY <1>2 DEF written, rest
<1>7. pipe' \in Seq(AllPieces) /\ Len(pipe') = Len(pipe) + n
  <2>1. pipe \o written \in Seq(AllPieces) /\ Len(pipe \o written) = Len(pipe) + Len(written)
    BY <1>3, <1>5, Concatenation
  <2> QED
    BY <1>5, <1>6, <2>1
<1>8. Flow' = Flow
  <2> DEFINE read == partial \o pipe
  <2>1. read \in Seq(AllPieces)
    BY <1>3
  <2>2. partial \in Seq(AllPieces) /\ pipe \in Seq(AllPieces)
    BY <1>3
  <2>3. written \in Seq(AllPieces) /\ rest \in Seq(AllPieces)
    BY <1>5
  <2>4. partial \o (pipe \o written) = read \o written
    BY <2>2, <2>3 DEF read
  <2> HIDE DEF read
  <2>5. (read \o written) \o rest = read \o (written \o rest)
    BY <2>1, <2>3
  <2>6. Flow' = (partial \o (pipe \o written)) \o rest /\ Flow = read \o chunk
    BY <1>1, <1>6 DEF Flow, readerVars, read
  <2> QED
    BY <1>5, <2>4, <2>5, <2>6
<1>9. TypeOK'
  <2>1. Len(rest) <= WriteBuffer /\ Len(pipe') <= PipeCapacity
    BY <1>3, <1>4, <1>5, <1>7, Sizes
  <2> QED
    BY <1>1, <1>5, <1>6, <1>7, <2>1 DEF TypeOK, readerVars
<1>10. Control' /\ Numbered' /\ Delivered'
  BY <1>1 DEF Control, Numbered, Delivered, Count, readerVars
<1>11. InFlight' /\ Produced' = Produced
  <2>1. Len(pipe) <= Len(pipe')
    BY <1>3, <1>4, <1>7
  <2> QED
    BY <1>1, <1>7, <1>8, <2>1, FlowKept DEF readerVars
<1>12. Complete'
  BY <1>1, <1>11 DEF Complete, readerVars
<1> QED
  BY <1>9, <1>10, <1>11, <1>12 DEF IInv

LEMMA UnlockStep == ASSUME IInv, Unlock PROVE IInv'
<1>1. /\ TypeOK /\ Control /\ Numbered /\ Delivered /\ InFlight /\ Complete
      /\ lock # None /\ chunk = <<>> /\ serialized = Pieces /\ lock' = None /\ serialized' = 0
      /\ UNCHANGED <<noise, process, logged, chunk, pipe, readerVars>>
  BY DEF IInv, Unlock
<1>2. TypeOK'
  BY <1>1, Sizes DEF TypeOK, readerVars
<1>3. Control' /\ Numbered' /\ Delivered'
  BY <1>1 DEF Control, Numbered, Delivered, Count, readerVars
<1>4. InFlight' /\ Produced' = Produced
  <2>1. Flow' = Flow /\ pipe' \in Seq(AllPieces) /\ Len(pipe) <= Len(pipe')
    BY <1>1 DEF Flow, readerVars, TypeOK
  <2> QED
    BY <1>1, <2>1, FlowKept DEF readerVars
<1>5. Complete'
  <2> SUFFICES ASSUME listening PROVE Produced = Len(logged) * Pieces
    <3>1. Len(logged) * Pieces \in Nat
      BY <1>1, StartFacts
    <3> QED
      BY <1>1, <1>4, <3>1 DEF Complete, readerVars
  <2>1. Produced = ((Len(logged) - 1) * Pieces) + Pieces
    BY <1>1 DEF Complete
  <2>2. (Len(logged) - 1) * Pieces = (Len(logged) * Pieces) - Pieces /\ Len(logged) * Pieces \in Nat
    BY <1>1, StartFacts DEF Control
  <2> QED
    BY <2>1, <2>2, Sizes
<1> QED
  BY <1>2, <1>3, <1>4, <1>5 DEF IInv

\* The client ends: what was not written yet is gone.
LEMMA EndStep ==
    ASSUME IInv, process = "running", NEW how, EndWith(how),
           \/ how = "ended"
           \/ how = "aborted" /\ ~listening
    PROVE  IInv'
<1>1. /\ TypeOK /\ Control /\ Numbered /\ Delivered /\ InFlight /\ Complete
      /\ process' = how /\ lock' = None /\ chunk' = <<>> /\ serialized' = 0
      /\ UNCHANGED <<noise, logged, pipe, readerVars>>
      /\ process' # "running"
  BY DEF IInv, EndWith
<1>2. TypeOK'
  BY <1>1, Sizes DEF TypeOK, readerVars
<1>3. Control' /\ Numbered' /\ Delivered'
  BY <1>1 DEF Control, Numbered, Delivered, Count, readerVars
<1>4. /\ partial \in Seq(AllPieces) /\ pipe \in Seq(AllPieces)
      /\ Len(partial) \in Nat /\ Len(pipe) \in Nat /\ Len(chunk) \in Nat
      /\ UNCHANGED <<partial, pipe, consumed, logged, noise, listening>>
  BY <1>1, FlowFacts DEF TypeOK, readerVars
<1>5. /\ Len(Flow') = Len(partial) + Len(pipe) /\ Len(Flow) = Len(partial) + Len(pipe) + Len(chunk)
      /\ \A j \in 1 .. Len(partial) + Len(pipe) : Flow'[j] = Flow[j]
  <2> DEFINE read == partial \o pipe
  <2>1. read \in Seq(AllPieces) /\ Len(read) = Len(partial) + Len(pipe)
    BY <1>4, Concatenation
  <2>2. Flow' = read \o <<>> /\ Flow = read \o chunk /\ chunk \in Seq(AllPieces)
    BY <1>1, <1>4 DEF Flow, TypeOK
  <2> HIDE DEF read
  <2>3. Flow' = read
    BY <2>1, <2>2
  <2>4. /\ Len(read \o chunk) = Len(read) + Len(chunk)
        /\ \A j \in 1 .. Len(read) : (read \o chunk)[j] = read[j]
    <3>1. read \in Seq(AllPieces) /\ chunk \in Seq(AllPieces)
      BY <2>1, <2>2
    <3>2. Len(read) \in Nat /\ Len(chunk) \in Nat
      BY <3>1
    <3> QED
      BY <3>1, <3>2, Concatenation
  <2> QED
    BY <2>1, <2>2, <2>3, <2>4
<1>6. Start' = Start /\ Start \in Nat
  BY <1>1, <1>4, StartFacts DEF Start
<1>7. Complete'
  <2> SUFFICES ASSUME listening PROVE Produced' <= Len(logged) * Pieces
    BY <1>1, <1>4 DEF Complete
  <2>1. Produced <= Len(logged) * Pieces /\ Len(logged) * Pieces \in Nat
    BY <1>1, StartFacts DEF Complete
  <2>2. Produced = Produced' + Len(chunk)
    BY <1>4, <1>5, <1>6 DEF Produced
  <2>3. Produced' \in Int
    BY <1>4, <1>5, <1>6 DEF Produced
  <2> QED
    BY <1>4, <2>1, <2>2, <2>3
<1>8. InFlight'
  <2> SUFFICES ASSUME listening PROVE \E z \in 1 .. Len(Flow') + 1 : NoiseAt(z)' /\ InStream(z)'
    BY <1>4 DEF InFlight
  <2>1. PICK z \in 1 .. Len(Flow) + 1 : NoiseAt(z) /\ InStream(z)
    BY <1>1 DEF InFlight
  <2>2. PICK y : y = IF noise THEN z ELSE Len(Flow') + 1
    OBVIOUS
  <2>3. CASE noise
    <3>1. y = z /\ z \in Len(partial) + 1 .. Len(partial) + Len(pipe) /\ Flow[z] = Noise
      BY <2>1, <2>2, <2>3 DEF NoiseAt
    <3>2. NoiseAt(y)'
      BY <1>4, <1>5, <2>3, <3>1 DEF NoiseAt
    <3>3. InStream(y)'
      <4>1. ASSUME NEW j \in 1 .. Len(Flow'), j # z PROVE Flow'[j] = Piece(Rank(j, z))
        <5>1. j \in 1 .. Len(partial) + Len(pipe) /\ j \in 1 .. Len(Flow)
          BY <1>4, <1>5
        <5> QED
          BY <1>5, <2>1, <4>1, <5>1 DEF InStream
      <4> QED
        BY <1>4, <1>6, <3>1, <4>1 DEF InStream, Rank, Piece
    <3>4. y \in 1 .. Len(Flow') + 1
      BY <1>4, <1>5, <3>1
    <3> QED
      BY <3>2, <3>3, <3>4
  <2>4. CASE ~noise
    <3>1. y = Len(Flow') + 1 /\ z = Len(Flow) + 1
      BY <2>1, <2>2, <2>4 DEF NoiseAt
    <3>2. NoiseAt(y)'
      BY <1>4, <2>4, <3>1 DEF NoiseAt
    <3>3. ASSUME NEW j \in 1 .. Len(Flow') PROVE Flow'[j] = Piece(Start + (j - 1)) /\ j < y
      <4>1. j \in 1 .. Len(Flow) /\ j < z /\ j # z /\ j < y
        BY <1>4, <1>5, <3>1
      <4>2. Flow'[j] = Flow[j]
        BY <1>5
      <4> QED
        BY <2>1, <4>1, <4>2 DEF InStream, Rank
    <3>4. InStream(y)'
      BY <1>4, <1>6, <3>3 DEF InStream, Rank, Piece
    <3>5. y \in 1 .. Len(Flow') + 1
      BY <1>4, <1>5, <3>1
    <3> QED
      BY <3>2, <3>4, <3>5
  <2> QED
    BY <2>3, <2>4
<1> QED
  BY <1>2, <1>3, <1>7, <1>8 DEF IInv

LEMMA MakeNoiseStep == ASSUME IInv, MakeNoise PROVE IInv'
<1>1. /\ TypeOK /\ Control /\ Numbered /\ Delivered /\ InFlight /\ Complete
      /\ process = "running" /\ ~noise /\ lock = None /\ listening /\ Len(pipe) < PipeCapacity
      /\ noise' = TRUE /\ pipe' = Append(pipe, Noise)
      /\ UNCHANGED <<process, lock, logged, serialized, chunk, readerVars>>
  BY DEF IInv, MakeNoise
<1>2. Noise \in AllPieces
  BY DEF AllPieces
<1>3. /\ partial \in Seq(AllPieces) /\ pipe \in Seq(AllPieces) /\ chunk = <<>>
      /\ Len(partial) \in Nat /\ Len(pipe) \in Nat
      /\ UNCHANGED <<partial, consumed, logged, listening>>
  BY <1>1, FlowFacts DEF TypeOK, Control, readerVars
<1>4. /\ pipe' \in Seq(AllPieces) /\ Len(pipe') = Len(pipe) + 1
      /\ \A j \in 1 .. Len(pipe) : pipe'[j] = pipe[j]
      /\ pipe'[Len(pipe) + 1] = Noise
  <2> HIDE DEF Noise
  <2> QED
    BY <1>1, <1>2, <1>3
<1>5. TypeOK'
  <2>1. Len(pipe') <= PipeCapacity
    BY <1>1, <1>3, <1>4, Sizes
  <2> QED
    BY <1>1, <1>4, <2>1 DEF TypeOK, readerVars
<1>6. Control' /\ Numbered' /\ Delivered'
  BY <1>1 DEF Control, Numbered, Delivered, Count, readerVars
<1> DEFINE length == Len(partial) + Len(pipe)
<1>7. /\ Len(Flow) = length /\ Len(Flow') = length + 1 /\ length \in Nat
      /\ \A j \in 1 .. length : Flow'[j] = Flow[j]
      /\ Flow'[length + 1] = Noise
  <2>1. Len(chunk) = 0 /\ TypeOK
    BY <1>1, <1>3
  <2>2. /\ Len(Flow) = length
        /\ \A j \in 1 .. Len(partial) : Flow[j] = partial[j]
        /\ \A j \in 1 .. Len(pipe) : Flow[Len(partial) + j] = pipe[j]
    <3>1. /\ Len(Flow) = length + Len(chunk) /\ length \in Nat
          /\ \A j \in 1 .. Len(partial) : Flow[j] = partial[j]
          /\ \A j \in 1 .. Len(pipe) : Flow[Len(partial) + j] = pipe[j]
      BY <2>1, FlowFacts
    <3> QED
      BY <2>1, <3>1
  <2>3. chunk \in Seq(AllPieces) /\ Len(chunk) = 0 /\ Flow' = (partial \o pipe') \o chunk
    BY <1>1, <1>3 DEF Flow, TypeOK
  <2>4. /\ Len(Flow') = Len(partial) + Len(pipe') + Len(chunk)
        /\ \A j \in 1 .. Len(partial) : Flow'[j] = partial[j]
        /\ \A j \in 1 .. Len(pipe') : Flow'[Len(partial) + j] = pipe'[j]
    <3>1. partial \in Seq(AllPieces) /\ pipe' \in Seq(AllPieces) /\ chunk \in Seq(AllPieces)
      BY <1>3, <1>4, <2>3
    <3> QED
      BY <2>3, <3>1, ThreeParts
  <2>5. ASSUME NEW j \in 1 .. length PROVE Flow'[j] = Flow[j]
    <3>1. CASE j <= Len(partial)
      BY <1>3, <2>2, <2>4, <2>5, <3>1
    <3>2. CASE Len(partial) < j
      <4> DEFINE k == j - Len(partial)
      <4>1. k \in 1 .. Len(pipe) /\ k \in 1 .. Len(pipe') /\ j = Len(partial) + k
        BY <1>3, <1>4, <2>5, <3>2
      <4>2. Flow'[Len(partial) + k] = pipe'[k] /\ Flow[Len(partial) + k] = pipe[k]
        BY <2>2, <2>4, <4>1
      <4> QED
        BY <1>4, <4>1, <4>2
    <3> QED
      BY <1>3, <2>5, <3>1, <3>2
  <2>6. Flow'[Len(partial) + (Len(pipe) + 1)] = Noise
    <3>1. Len(pipe) + 1 \in 1 .. Len(pipe')
      BY <1>3, <1>4
    <3> QED
      BY <1>4, <2>4, <3>1
  <2>7. Len(partial) + (Len(pipe) + 1) = length + 1 /\ length \in Nat
    BY <1>3
  <2> HIDE DEF Noise
  <2> QED
    BY <1>3, <1>4, <2>2, <2>3, <2>4, <2>5, <2>6, <2>7
<1> HIDE DEF length
<1>8. Start' = Start /\ Start \in Nat
  BY <1>1, <1>3, StartFacts DEF Start
<1>9. Complete'
  <2>1. Produced' = Produced
    BY <1>1, <1>7, <1>8 DEF Produced
  <2> QED
    BY <1>1, <1>3, <2>1 DEF Complete
<1>10. InFlight'
  <2>1. PICK z \in 1 .. Len(Flow) + 1 : NoiseAt(z) /\ InStream(z)
    BY <1>1 DEF InFlight
  <2>2. z = length + 1
    BY <1>1, <1>7, <2>1 DEF NoiseAt
  <2>3. NoiseAt(z)'
    <3>1. z \in Len(partial) + 1 .. Len(partial) + Len(pipe')
      BY <1>3, <1>4, <2>2 DEF length
    <3> QED
      BY <1>1, <1>3, <1>7, <2>2, <3>1 DEF NoiseAt
  <2>4. ASSUME NEW j \in 1 .. length PROVE Flow'[j] = Piece(Start + (j - 1)) /\ j < z
    <3>1. j \in 1 .. Len(Flow) /\ j < z /\ j # z
      BY <1>7, <2>2
    <3>2. Flow'[j] = Flow[j]
      BY <1>7
    <3> QED
      BY <2>1, <3>1, <3>2 DEF InStream, Rank
  <2>5. InStream(z)'
    <3>1. ASSUME NEW j \in 1 .. Len(Flow'), j # z PROVE j \in 1 .. length
      BY <1>7, <2>2, <3>1
    <3> QED
      BY <1>3, <1>8, <2>4, <3>1 DEF InStream, Rank, Piece
  <2>6. z \in 1 .. Len(Flow') + 1
    BY <1>7, <2>2
  <2> QED
    BY <2>3, <2>5, <2>6 DEF InFlight
<1> QED
  BY <1>5, <1>6, <1>9, <1>10 DEF IInv

--------------------------------------------------------------------------------
(* The steps of the reader. *)

\* A step that neither takes nor parses anything.
LEMMA QuietStep ==
    ASSUME IInv, UNCHANGED <<writerVars, pipe, partial, consumed>>,
           listening' \in BOOLEAN, handling' \in BOOLEAN, errors' \subseteq {"truncated", "syntax"},
           listening' => listening, handling' => listening'
    PROVE  IInv'
<1>1. /\ TypeOK /\ Control /\ Numbered /\ Delivered /\ InFlight /\ Complete
      /\ UNCHANGED <<noise, process, lock, logged, serialized, chunk, pipe, partial, consumed>>
  BY DEF IInv, writerVars
<1>2. TypeOK' /\ Control' /\ Numbered' /\ Delivered'
  BY <1>1 DEF TypeOK, Control, Numbered, Delivered, Count
<1>3. InFlight'
  <2>1. CASE listening' = TRUE
    <3>1. UNCHANGED <<consumed, logged, noise, listening, partial>>
      BY <1>1, <2>1 DEF TypeOK
    <3>2. Flow' = Flow /\ pipe' \in Seq(AllPieces) /\ Len(pipe) <= Len(pipe')
      BY <1>1 DEF Flow, TypeOK
    <3> QED
      BY <1>1, <3>1, <3>2, FlowKept
  <2>2. CASE listening' = FALSE
    BY <2>2 DEF InFlight
  <2> QED
    BY <2>1, <2>2
<1>4. Complete'
  BY <1>1 DEF Complete, Produced, Flow, Start
<1> QED
  BY <1>2, <1>3, <1>4 DEF IInv

\* There is one place where the parser stops.
LEMMA AcceptedIs ==
    ASSUME NEW text, Len(text) \in Nat, NEW g \in 0 .. Len(text),
           \A k \in 1 .. g : Fits(text, k), g < Len(text) => ~Fits(text, g + 1)
    PROVE  Accepted(text) = g
<1> DEFINE Stops(n) == /\ \A k \in 1 .. n : Fits(text, k)
                       /\ n < Len(text) => ~Fits(text, n + 1)
<1>1. Stops(g)
  OBVIOUS
<1>2. ASSUME NEW h \in 0 .. Len(text), Stops(h) PROVE h = g
  <2>1. ~(h < g)
    <3> SUFFICES ASSUME h < g PROVE FALSE
      OBVIOUS
    <3>1. h + 1 \in 1 .. g /\ h < Len(text)
      OBVIOUS
    <3> QED
      BY <1>2, <3>1
  <2>2. ~(g < h)
    <3> SUFFICES ASSUME g < h PROVE FALSE
      OBVIOUS
    <3>1. g + 1 \in 1 .. h /\ g < Len(text)
      OBVIOUS
    <3> QED
      BY <1>2, <3>1
  <2> QED
    BY <2>1, <2>2
<1> DEFINE stop == CHOOSE n \in 0 .. Len(text) : Stops(n)
<1>3. stop \in 0 .. Len(text) /\ Stops(stop)
  BY <1>1
<1>4. Accepted(text) = stop
  BY DEF Accepted
<1> HIDE DEF stop, Stops
<1> QED
  BY <1>2, <1>3, <1>4

LEMMA PieceFromStart ==
    ASSUME TypeOK, NEW n \in Nat
    PROVE  Piece(Start + n) = <<logged[(Len(consumed) + (n \div Pieces)) + 1], (n % Pieces) + 1>>
<1>1. Len(consumed) \in Nat
  BY DEF TypeOK
<1>2. /\ ((Len(consumed) * Pieces) + n) \div Pieces = Len(consumed) + (n \div Pieces)
      /\ ((Len(consumed) * Pieces) + n) % Pieces = n % Pieces
  BY <1>1, Sizes, Shift
<1> QED
  BY <1>2 DEF Piece, Start

\* What the parser is given is the beginning of the flow.
LEMMA TextIsFlow ==
    ASSUME TypeOK, NEW n \in 0 .. Len(pipe), NEW text, text = partial \o SubSeq(pipe, 1, n)
    PROVE  /\ text \in Seq(AllPieces) /\ Len(text) = Len(partial) + n
           /\ \A j \in 1 .. Len(partial) + n : text[j] = Flow[j]
<1>1. /\ partial \in Seq(AllPieces) /\ pipe \in Seq(AllPieces)
      /\ Len(partial) \in Nat /\ Len(pipe) \in Nat /\ Len(Flow) \in Nat
      /\ Len(partial) + Len(pipe) <= Len(Flow)
  BY FlowFacts DEF TypeOK
<1> DEFINE input == SubSeq(pipe, 1, n)
<1>2. input \in Seq(AllPieces) /\ Len(input) = n /\ \A j \in 1 .. n : input[j] = pipe[j]
  BY <1>1
<1> HIDE DEF input
<1> DEFINE length == Len(partial) + n
<1>3. /\ text \in Seq(AllPieces) /\ Len(text) = length /\ length \in Nat
      /\ \A j \in 1 .. length : text[j] = IF j <= Len(partial) THEN partial[j] ELSE input[j - Len(partial)]
  <2>1. partial \in Seq(AllPieces) /\ input \in Seq(AllPieces)
    BY <1>1, <1>2
  <2> DEFINE both == partial \o input
  <2>2. /\ both \in Seq(AllPieces) /\ Len(both) = Len(partial) + Len(input)
        /\ \A j \in 1 .. Len(partial) + Len(input) :
              both[j] = IF j <= Len(partial) THEN partial[j] ELSE input[j - Len(partial)]
    BY <2>1, Concatenation
  <2>3. text = both
    BY DEF input
  <2> HIDE DEF both
  <2> QED
    BY <1>1, <1>2, <2>2, <2>3
<1>4. ASSUME NEW j \in 1 .. length PROVE text[j] = Flow[j]
  <2>1. CASE j <= Len(partial)
    BY <1>1, <1>3, <2>1, FlowFacts
  <2>2. CASE Len(partial) < j
    <3> DEFINE k == j - Len(partial)
    <3>1. k \in 1 .. n /\ k \in 1 .. Len(pipe) /\ j = Len(partial) + k /\ ~(j <= Len(partial))
      BY <1>1, <1>3, <2>2
    <3>2. Flow[Len(partial) + k] = pipe[k]
      BY <3>1, FlowFacts
    <3> QED
      BY <1>2, <1>3, <3>1, <3>2
  <2> QED
    BY <1>1, <1>3, <2>1, <2>2
<1> QED
  BY <1>3, <1>4

\* The parser takes all that is in front of the noise, and no noise.
LEMMA ReadIsAccepted ==
    ASSUME TypeOK, NEW z \in 1 .. Len(Flow) + 1, NoiseAt(z), InStream(z),
           NEW text \in Seq(AllPieces), Len(text) <= Len(Flow),
           \A j \in 1 .. Len(text) : text[j] = Flow[j]
    PROVE  Accepted(text) = IF z <= Len(text) THEN z - 1 ELSE Len(text)
<1> DEFINE length == Len(text)
<1>1. Len(Flow) \in Nat /\ length \in Nat
  BY FlowFacts
<1>2. \A j \in 1 .. length : text[j] = Flow[j]
  OBVIOUS
<1> DEFINE g == IF z <= length THEN z - 1 ELSE length
<1>3. g \in 0 .. length /\ g < z /\ (g < length => g + 1 = z) /\ length <= Len(Flow)
  BY <1>1
<1>4. ASSUME NEW k \in 1 .. g PROVE text[k] = Piece(Start + (k - 1))
  <2>1. k \in 1 .. length /\ k \in 1 .. Len(Flow) /\ k # z /\ k < z
    BY <1>1, <1>3
  <2>2. Flow[k] = Piece(Rank(k, z)) /\ Rank(k, z) = Start + (k - 1)
    BY <2>1 DEF InStream, Rank
  <2> QED
    BY <1>2, <2>1, <2>2
<1>5. ASSUME NEW k \in 1 .. g
      PROVE  text[k] = <<logged[(Len(consumed) + ((k - 1) \div Pieces)) + 1], ((k - 1) % Pieces) + 1>>
  <2>1. k - 1 \in Nat
    BY <1>1, <1>3
  <2> QED
    BY <1>4, <2>1, PieceFromStart
<1>6. ASSUME NEW k \in 1 .. g PROVE Fits(text, k)
  <2>1. k - 1 \in Nat
    BY <1>1, <1>3
  <2>2. ASSUME (k - 1) % Pieces # 0 PROVE text[k][1] = text[k - 1][1]
    <3>1. k - 2 \in Nat /\ (k - 2) \div Pieces = (k - 1) \div Pieces
      <4>1. (k - 1) - 1 \in Nat /\ ((k - 1) - 1) \div Pieces = (k - 1) \div Pieces
        BY <2>1, <2>2, Sizes, Predecessor
      <4>2. (k - 1) - 1 = k - 2
        BY <2>1
      <4> QED
        BY <4>1, <4>2
    <3>2. k - 1 \in 1 .. g /\ (k - 1) - 1 = k - 2
      BY <1>1, <1>3, <3>1
    <3>3. text[k - 1][1] = logged[(Len(consumed) + ((k - 2) \div Pieces)) + 1]
      BY <1>5, <3>2
    <3>4. text[k][1] = logged[(Len(consumed) + ((k - 1) \div Pieces)) + 1]
      BY <1>5
    <3> QED
      BY <3>1, <3>3, <3>4
  <2>3. text[k][2] = ((k - 1) % Pieces) + 1
    BY <1>5
  <2> QED
    BY <2>2, <2>3 DEF Fits
<1>7. ASSUME g < length PROVE ~Fits(text, g + 1)
  <2>1. g + 1 = z /\ z \in 1 .. length /\ z - 1 \in Nat
    BY <1>1, <1>3, <1>7
  <2>2. text[z] = Noise
    <3>1. text[z] = Flow[z]
      BY <1>2, <2>1
    <3>2. noise
      BY <1>1, <1>3, <2>1 DEF NoiseAt
    <3> QED
      BY <3>1, <3>2 DEF NoiseAt
  <2>3. text[z][2] = 0
    BY <2>2 DEF Noise
  <2>4. (z - 1) % Pieces \in Nat
    BY <2>1, Sizes, Division
  <2> QED
    BY <2>1, <2>3, <2>4 DEF Fits
<1> HIDE DEF g
<1>8. Accepted(text) = g
  BY <1>1, <1>3, <1>6, <1>7, AcceptedIs
<1> QED
  BY <1>8 DEF g

\* All that the parser takes was logged.
LEMMA AcceptedIsLogged ==
    ASSUME TypeOK, Complete, Delivered, listening,
           NEW z \in 1 .. Len(Flow) + 1, NoiseAt(z), NEW g \in 0 .. Len(Flow), g < z
    PROVE  Len(consumed) + (g \div Pieces) <= Len(logged)
<1> DEFINE c == Len(consumed)
           l == Len(logged)
           m == g \div Pieces
           r == g % Pieces
<1>1. c \in Nat /\ l \in Nat /\ c <= l /\ g \in Nat /\ c * Pieces \in Nat /\ l * Pieces \in Nat
  BY FlowFacts, Sizes, Products DEF TypeOK, Delivered
<1>2. m \in Nat /\ r \in 0 .. Pieces - 1 /\ g = (m * Pieces) + r /\ m * Pieces \in Nat
  <2>1. m \in Nat /\ r \in 0 .. Pieces - 1 /\ g = (m * Pieces) + r
    BY <1>1, Sizes, Division
  <2> HIDE DEF m
  <2> QED
    BY <2>1, Sizes, Products
<1>3. (c * Pieces) + g <= l * Pieces
  <2>1. CASE g = 0
    BY <1>1, <2>1, Sizes, Products
  <2>2. CASE g # 0
    <3>1. g \in 1 .. Len(Flow) /\ g # z /\ g < z
      BY <1>1, <2>2
    <3>2. Rank(g, z) < l * Pieces
      BY <3>1, RankIsLogged
    <3>3. Rank(g, z) = (c * Pieces) + (g - 1)
      BY <3>1 DEF Rank, Start
    <3> HIDE DEF c, l
    <3> QED
      BY <1>1, <3>2, <3>3
  <2> QED
    BY <2>1, <2>2
<1> HIDE DEF c, l, m, r
<1>4. ~(l + 1 <= c + m)
  <2> SUFFICES ASSUME l + 1 <= c + m PROVE FALSE
    OBVIOUS
  <2>1. (l + 1) * Pieces <= (c + m) * Pieces /\ (l + 1) * Pieces = (l * Pieces) + Pieces
    <3>1. l + 1 \in Nat /\ c + m \in Nat
      BY <1>1, <1>2
    <3> QED
      BY <1>1, <3>1, Sizes, Products
  <2>2. (c + m) * Pieces = (c * Pieces) + (m * Pieces)
    BY <1>1, <1>2, Sizes, Products
  <2> QED
    BY <1>1, <1>2, <1>3, <2>1, <2>2, Sizes
<1>5. c + m <= l
  BY <1>1, <1>2, <1>4
<1> QED
  BY <1>5 DEF c, l, m

\* As many of the logged messages arrive as are complete.
LEMMA ItemsAreLogged ==
    ASSUME TypeOK, Complete, Delivered, listening,
           NEW z \in 1 .. Len(Flow) + 1, NoiseAt(z), InStream(z),
           NEW text \in Seq(AllPieces), Len(text) <= Len(Flow),
           \A j \in 1 .. Len(text) : text[j] = Flow[j],
           NEW g \in 0 .. Len(text), g < z
    PROVE  LET m == g \div Pieces
               items == [k \in 1 .. m |-> text[k * Pieces][1]]
           IN  /\ m \in Nat /\ Len(consumed) + m <= Len(logged)
               /\ m * Pieces \in Nat /\ g - (m * Pieces) \in 0 .. Pieces - 1
               /\ items \in Seq(Messages) /\ Len(items) = m
               /\ \A k \in 1 .. m : items[k] = logged[Len(consumed) + k]
<1> DEFINE m == g \div Pieces
           items == [k \in 1 .. m |-> text[k * Pieces][1]]
<1>1. /\ Len(text) \in Nat /\ Len(Flow) \in Nat /\ g \in Nat /\ g \in 0 .. Len(Flow)
      /\ Len(consumed) \in Nat /\ Len(logged) \in Nat /\ logged \in Seq(Messages)
  BY FlowFacts DEF TypeOK
<1>2. /\ m \in Nat /\ m * Pieces \in Nat /\ g % Pieces \in 0 .. Pieces - 1
      /\ g = (m * Pieces) + (g % Pieces)
  <2>1. /\ g \div Pieces \in Nat /\ g % Pieces \in 0 .. Pieces - 1
        /\ g = ((g \div Pieces) * Pieces) + (g % Pieces)
    BY <1>1, Sizes, Division
  <2>2. m \in Nat
    BY <2>1
  <2>3. m * Pieces \in Nat
    BY <2>2, Sizes, Products
  <2> QED
    BY <2>1, <2>2, <2>3
<1>3. Len(consumed) + m <= Len(logged)
  BY <1>1, AcceptedIsLogged
<1>4. ASSUME NEW k \in 1 .. m PROVE text[k * Pieces][1] = logged[Len(consumed) + k]
  <2> DEFINE j == k * Pieces
             before == k - 1
  <2>1. before \in Nat /\ k \in Nat /\ k <= m /\ before + 1 = k
    BY <1>2
  <2>2. /\ j \in Nat /\ j <= m * Pieces /\ (before + 1) * Pieces = (before * Pieces) + Pieces
        /\ before * Pieces \in Nat
    <3> HIDE DEF before
    <3>1. j \in Nat /\ j <= m * Pieces
      BY <1>2, <2>1, Sizes, Multiples
    <3>2. (before + 1) * Pieces = (before * Pieces) + Pieces /\ before * Pieces \in Nat
      BY <2>1, Sizes, Products
    <3> QED
      BY <3>1, <3>2
  <2> HIDE DEF before
  <2>3. j = (before * Pieces) + Pieces
    BY <2>1, <2>2
  <2> HIDE DEF j
  <2>4. j \in 1 .. Len(text) /\ j \in 1 .. Len(Flow) /\ j < z
    <3> DEFINE all == m * Pieces
               rest == g % Pieces
               start == before * Pieces
    <3>1. j \in Nat /\ j <= all /\ j = start + Pieces /\ start \in Nat /\ all \in Nat /\ rest \in Nat /\ g = all + rest
      BY <1>2, <2>2, <2>3
    <3> HIDE DEF all, rest, start
    <3>2. 1 <= j /\ j <= g
      BY <3>1, Sizes
    <3> QED
      BY <1>1, <3>1, <3>2
  <2>5. text[j] = Piece(Start + (j - 1))
    <3>1. Flow[j] = Piece(Rank(j, z))
      BY <1>1, <2>4 DEF InStream
    <3>2. Rank(j, z) = Start + (j - 1)
      BY <2>4 DEF Rank
    <3> QED
      BY <2>4, <3>1, <3>2
  <2>6. j - 1 \in Nat /\ (j - 1) \div Pieces = before
    <3>1. j - 1 = (before * Pieces) + (Pieces - 1) /\ Pieces - 1 \in 0 .. Pieces - 1
      BY <2>2, <2>3, Sizes
    <3>2. /\ (before * Pieces) + (Pieces - 1) \in Nat
          /\ ((before * Pieces) + (Pieces - 1)) \div Pieces = before
      BY <2>1, <3>1, Sizes, Quotient
    <3> QED
      BY <3>1, <3>2
  <2>7. Piece(Start + (j - 1)) = <<logged[(Len(consumed) + before) + 1], ((j - 1) % Pieces) + 1>>
    BY <2>6, PieceFromStart
  <2>8. (Len(consumed) + before) + 1 = Len(consumed) + k
    <3>1. Len(consumed) \in Nat
      BY <1>1
    <3> QED
      BY <2>1, <3>1, Regrouped
  <2>9. Piece(Start + (j - 1))[1] = logged[Len(consumed) + k]
    BY <2>7, <2>8
  <2> QED
    BY <2>5, <2>9 DEF j
<1>5. ASSUME NEW k \in 1 .. m PROVE logged[Len(consumed) + k] \in Messages
  BY <1>1, <1>2, <1>3
<1>6. items \in [1 .. m -> Messages] /\ \A k \in 1 .. m : items[k] = logged[Len(consumed) + k]
  BY <1>4, <1>5
<1>7. items \in Seq(Messages) /\ Len(items) = m
  <2>1. m \in Nat /\ items \in [1 .. m -> Messages]
    BY <1>2, <1>6
  <2>2. \A f \in [1 .. m -> Messages] : f \in Seq(Messages) /\ Len(f) = m
    BY <2>1, FunctionIsSequence
  <2> QED
    BY <2>1, <2>2
<1>8. g - (m * Pieces) \in 0 .. Pieces - 1
  <2> DEFINE r == g % Pieces
             taken == m * Pieces
  <2>1. g = taken + r /\ taken \in Nat /\ r \in 0 .. Pieces - 1
    BY <1>2
  <2> HIDE DEF r, taken
  <2>2. g - taken = r
    BY <2>1
  <2> QED
    BY <2>1, <2>2 DEF taken
<1> QED
  BY <1>2, <1>3, <1>6, <1>7, <1>8

LEMMA ReadSomeEffect ==
    ASSUME IInv, ReadSome, NEW z \in 1 .. Len(Flow) + 1, NoiseAt(z), InStream(z)
    PROVE  \E n \in 1 .. Len(pipe), m \in Nat, text \in Seq(AllPieces), g \in Nat :
              /\ Len(text) = Len(partial) + n /\ \A j \in 1 .. Len(text) : text[j] = Flow[j]
              /\ g = IF z <= Len(text) THEN z - 1 ELSE Len(text)
              /\ g <= Len(text) /\ m * Pieces \in Nat /\ g - (m * Pieces) \in 0 .. Pieces - 1
              /\ Len(consumed) + m <= Len(logged)
              /\ consumed' \in Seq(Messages) /\ Len(consumed') = Len(consumed) + m
              /\ \A k \in 1 .. Len(consumed) + m : consumed'[k] = logged[k]
              /\ pipe' = SubSeq(pipe, n + 1, Len(pipe))
              /\ partial' = SubSeq(text, (m * Pieces) + 1, g)
              /\ errors' = IF g < Len(text) THEN errors \cup {"syntax"} ELSE errors
              /\ listening' = ~(g < Len(text)) /\ handling' = ~(g < Len(text))
<1>1. /\ TypeOK /\ Control /\ Delivered /\ Complete /\ listening
      /\ pipe \in Seq(AllPieces) /\ pipe # <<>> /\ Len(pipe) \in Nat /\ Len(partial) \in Nat
  BY FlowFacts DEF IInv, ReadSome, Control, TypeOK
<1> DEFINE n == Least(ReadBuffer, Len(pipe))
           input == SubSeq(pipe, 1, n)
           text == partial \o input
           g == IF z <= Len(text) THEN z - 1 ELSE Len(text)
           m == g \div Pieces
           items == [k \in 1 .. m |-> text[k * Pieces][1]]
<1>2. n \in 1 .. Len(pipe) /\ n \in 0 .. Len(pipe)
  BY <1>1, Sizes DEF Least
<1>3. /\ pipe' = SubSeq(pipe, n + 1, Len(pipe))
      /\ partial' = parse_buffer(input).taken
      /\ consumed' = consumed \o parse_buffer(input).items
      /\ errors' = IF parse_buffer(input).jammed THEN errors \cup {"syntax"} ELSE errors
      /\ listening' = ~parse_buffer(input).jammed
      /\ handling' = ~parse_buffer(input).jammed
  BY DEF ReadSome
<1>4. parse_buffer(input) = LET a == Accepted(text)
                                c == a \div Pieces
                            IN  [items  |-> [k \in 1 .. c |-> text[k * Pieces][1]],
                                 taken  |-> SubSeq(text, (c * Pieces) + 1, a),
                                 jammed |-> a < Len(text)]
  BY DEF parse_buffer
<1> HIDE DEF n
<1>5. /\ text \in Seq(AllPieces) /\ Len(text) = Len(partial) + n
      /\ \A j \in 1 .. Len(text) : text[j] = Flow[j]
  BY <1>1, <1>2, TextIsFlow
<1>6. Len(text) <= Len(Flow) /\ Len(text) \in Nat
  BY <1>1, <1>2, <1>5, FlowFacts
<1> HIDE DEF text
<1>7. Accepted(text) = g
  BY <1>1, <1>5, <1>6, ReadIsAccepted
<1>8. g \in 0 .. Len(text) /\ g < z /\ g \in Nat
  BY <1>6
<1> HIDE DEF g
<1>9. /\ parse_buffer(input).items = items
      /\ parse_buffer(input).taken = SubSeq(text, (m * Pieces) + 1, g)
      /\ parse_buffer(input).jammed = (g < Len(text))
  <2> DEFINE taken == SubSeq(text, (m * Pieces) + 1, g)
             jammed == g < Len(text)
  <2>1. parse_buffer(input) = [items |-> items, taken |-> taken, jammed |-> jammed]
    BY <1>4, <1>7
  <2> HIDE DEF items, taken, jammed
  <2>2. /\ parse_buffer(input).items = items
        /\ parse_buffer(input).taken = taken
        /\ parse_buffer(input).jammed = jammed
    BY <2>1
  <2> QED
    BY <2>2 DEF taken, jammed
<1>10. /\ m \in Nat /\ Len(consumed) + m <= Len(logged)
       /\ m * Pieces \in Nat /\ g - (m * Pieces) \in 0 .. Pieces - 1
       /\ items \in Seq(Messages) /\ Len(items) = m
       /\ \A k \in 1 .. m : items[k] = logged[Len(consumed) + k]
  BY <1>1, <1>5, <1>6, <1>8, ItemsAreLogged
<1> HIDE DEF input, items, m
<1>11. /\ consumed' \in Seq(Messages) /\ Len(consumed') = Len(consumed) + m
       /\ \A k \in 1 .. Len(consumed) + m : consumed'[k] = logged[k]
  <2>1. consumed \in Seq(Messages) /\ items \in Seq(Messages) /\ Len(consumed) \in Nat
    BY <1>1, <1>10 DEF TypeOK
  <2>2. /\ consumed \o items \in Seq(Messages) /\ Len(consumed \o items) = Len(consumed) + Len(items)
        /\ \A k \in 1 .. Len(consumed) + Len(items) :
              (consumed \o items)[k] = IF k <= Len(consumed) THEN consumed[k] ELSE items[k - Len(consumed)]
    BY <2>1, Concatenation
  <2>3. consumed' = consumed \o items
    BY <1>3, <1>9
  <2>4. ASSUME NEW k \in 1 .. Len(consumed) + m PROVE (consumed \o items)[k] = logged[k]
    <3>1. CASE k <= Len(consumed)
      BY <1>1, <1>10, <2>1, <2>2, <3>1 DEF Delivered
    <3>2. CASE Len(consumed) < k
      <4> DEFINE i == k - Len(consumed)
      <4>1. i \in 1 .. m /\ k = Len(consumed) + i /\ ~(k <= Len(consumed))
        BY <1>10, <2>1, <3>2
      <4>2. items[i] = logged[Len(consumed) + i]
        BY <1>10, <4>1
      <4> QED
        BY <1>10, <2>1, <2>2, <4>1, <4>2
    <3> QED
      BY <1>10, <2>1, <3>1, <3>2
  <2> QED
    BY <1>10, <2>2, <2>3, <2>4
<1>12. g = IF z <= Len(text) THEN z - 1 ELSE Len(text)
  BY DEF g
<1>13. g <= Len(text)
  BY <1>6, <1>8
<1> QED
  BY <1>2, <1>3, <1>5, <1>8, <1>9, <1>10, <1>11, <1>12, <1>13

LEMMA Suffix ==
    ASSUME NEW S, NEW s \in Seq(S), NEW d \in Nat, d <= Len(s)
    PROVE  /\ SubSeq(s, d + 1, Len(s)) \in Seq(S) /\ Len(SubSeq(s, d + 1, Len(s))) = Len(s) - d
           /\ \A j \in 1 .. Len(s) - d : SubSeq(s, d + 1, Len(s))[j] = s[d + j]
OBVIOUS

\* f is a, b and c, one after the other.
AreParts(f, a, b, c) == /\ Len(f) = Len(a) + Len(b) + Len(c)
                        /\ \A j \in 1 .. Len(a) : f[j] = a[j]
                        /\ \A j \in 1 .. Len(b) : f[Len(a) + j] = b[j]
                        /\ \A j \in 1 .. Len(c) : f[Len(a) + Len(b) + j] = c[j]

LEMMA FlowParts ==
    ASSUME NEW a \in Seq(AllPieces), NEW b \in Seq(AllPieces), NEW c \in Seq(AllPieces)
    PROVE  AreParts((a \o b) \o c, a, b, c)
BY ThreeParts DEF AreParts

\* a2 is what is left of a and the first n elements of b, which are the beginning
\* of f, without the first d elements, b2 is what is left of b.
AreMoved(a, b, f, n, d, a2, b2) ==
    /\ Len(a) \in Nat /\ Len(b) \in Nat /\ n \in 0 .. Len(b) /\ d \in 0 .. Len(a) + n
    /\ Len(a2) = (Len(a) + n) - d /\ Len(b2) = Len(b) - n
    /\ \A j \in 1 .. Len(a2) : a2[j] = f[d + j]
    /\ \A j \in 1 .. Len(b2) : b2[j] = b[n + j]

\* Then the three parts are what is left of the three parts before.
LEMMA LeftOver ==
    ASSUME NEW a, NEW b, NEW c, NEW f, NEW a2, NEW b2, NEW f2, NEW n, NEW d, Len(c) \in Nat,
           AreParts(f, a, b, c), AreParts(f2, a2, b2, c), AreMoved(a, b, f, n, d, a2, b2)
    PROVE  /\ Len(f2) = Len(f) - d /\ Len(f2) \in Nat
           /\ \A j \in 1 .. Len(f2) : f2[j] = f[d + j]
<1>1. PICK la \in Nat : la = Len(a)
  BY DEF AreMoved
<1>2. PICK lb \in Nat : lb = Len(b)
  BY DEF AreMoved
<1>3. PICK lc \in Nat : lc = Len(c)
  OBVIOUS
<1>4. PICK la2 : la2 = Len(a2)
  OBVIOUS
<1>5. PICK lb2 : lb2 = Len(b2)
  OBVIOUS
<1>6. la2 = (la + n) - d /\ lb2 = lb - n /\ n \in 0 .. lb /\ d \in 0 .. la + n
  BY <1>1, <1>2, <1>4, <1>5 DEF AreMoved
<1>7. la \in Nat /\ lb \in Nat /\ lc \in Nat /\ la2 \in Nat /\ lb2 \in Nat /\ n \in Nat /\ d \in Nat
  BY <1>1, <1>2, <1>3, <1>6
<1>8. /\ \A i \in 1 .. la2 : a2[i] = f[d + i]
      /\ \A i \in 1 .. lb2 : b2[i] = b[n + i]
  BY <1>4, <1>5 DEF AreMoved
<1>9. /\ Len(f) = la + lb + lc
      /\ \A j \in 1 .. lb : f[la + j] = b[j]
      /\ \A j \in 1 .. lc : f[la + lb + j] = c[j]
  BY <1>1, <1>2, <1>3 DEF AreParts
<1>10. /\ Len(f2) = la2 + lb2 + lc
       /\ \A j \in 1 .. la2 : f2[j] = a2[j]
       /\ \A j \in 1 .. lb2 : f2[la2 + j] = b2[j]
       /\ \A j \in 1 .. lc : f2[la2 + lb2 + j] = c[j]
  BY <1>3, <1>4, <1>5 DEF AreParts
<1>11. Len(f2) = Len(f) - d /\ Len(f2) \in Nat
  <2>1. Len(f) = la + lb + lc /\ Len(f2) = la2 + lb2 + lc
    BY <1>9, <1>10
  <2> QED
    BY <1>6, <1>7, <2>1
<1>12. ASSUME NEW j \in 1 .. la2 + lb2 + lc PROVE f2[j] = f[d + j]
  <2>1. j \in Nat /\ 1 <= j /\ j <= la2 + lb2 + lc
    BY <1>7
  <2>2. CASE j <= la2
    <3>1. j \in 1 .. la2
      BY <1>7, <2>1, <2>2
    <3> QED
      BY <1>10, <1>8, <3>1
  <2>3. CASE la2 < j /\ j <= la2 + lb2
    <3>1. PICK k \in 1 .. lb2 : j = la2 + k
      <4>1. j - la2 \in 1 .. lb2 /\ j = la2 + (j - la2)
        BY <1>7, <2>1, <2>3
      <4> QED
        BY <4>1
    <3>2. n + k \in 1 .. lb /\ la + (n + k) = d + j
      BY <1>6, <1>7, <3>1
    <3>3. f2[la2 + k] = b[n + k] /\ f[la + (n + k)] = b[n + k]
      BY <1>9, <1>10, <1>8, <3>1, <3>2
    <3> QED
      BY <3>1, <3>2, <3>3
  <2>4. CASE la2 + lb2 < j
    <3>1. PICK k \in 1 .. lc : j = la2 + lb2 + k
      <4>1. j - (la2 + lb2) \in 1 .. lc /\ j = la2 + lb2 + (j - (la2 + lb2))
        BY <1>7, <2>1, <2>4
      <4> QED
        BY <4>1
    <3>2. la + lb + k = d + j
      BY <1>6, <1>7, <3>1
    <3>3. f2[la2 + lb2 + k] = c[k] /\ f[la + lb + k] = c[k]
      BY <1>9, <1>10, <3>1
    <3> QED
      BY <3>1, <3>2, <3>3
  <2> QED
    BY <1>7, <2>1, <2>2, <2>3, <2>4
<1> QED
  BY <1>10, <1>11, <1>12

\* The same for the flow.
LEMMA FlowMovesOn ==
    ASSUME TypeOK, NEW n \in 1 .. Len(pipe), NEW text \in Seq(AllPieces),
           Len(text) = Len(partial) + n, \A j \in 1 .. Len(text) : text[j] = Flow[j],
           NEW d \in Nat, d <= Len(text), chunk' = chunk,
           pipe' = SubSeq(pipe, n + 1, Len(pipe)), partial' = SubSeq(text, d + 1, Len(text))
    PROVE  /\ partial' \in Seq(AllPieces) /\ pipe' \in Seq(AllPieces)
           /\ Len(partial') = Len(text) - d /\ Len(pipe') = Len(pipe) - n
           /\ Len(Flow') = Len(Flow) - d /\ Len(Flow') \in Nat
           /\ \A j \in 1 .. Len(Flow') : Flow'[j] = Flow[d + j]
<1>1. /\ partial \in Seq(AllPieces) /\ pipe \in Seq(AllPieces) /\ chunk \in Seq(AllPieces)
      /\ Len(partial) \in Nat /\ Len(pipe) \in Nat /\ Len(chunk) \in Nat /\ Len(text) \in Nat
  BY DEF TypeOK
<1>2. /\ n \in Nat /\ n <= Len(pipe) /\ n \in 0 .. Len(pipe) /\ d \in 0 .. Len(partial) + n
  BY <1>1
<1>3. /\ partial' \in Seq(AllPieces) /\ Len(partial') = Len(text) - d
      /\ \A j \in 1 .. Len(partial') : partial'[j] = text[d + j]
  <2>1. /\ SubSeq(text, d + 1, Len(text)) \in Seq(AllPieces)
        /\ Len(SubSeq(text, d + 1, Len(text))) = Len(text) - d
        /\ \A j \in 1 .. Len(text) - d : SubSeq(text, d + 1, Len(text))[j] = text[d + j]
    BY Suffix
  <2> QED
    BY <2>1
<1>4. /\ pipe' \in Seq(AllPieces) /\ Len(pipe') = Len(pipe) - n
      /\ \A j \in 1 .. Len(pipe') : pipe'[j] = pipe[n + j]
  <2>1. /\ SubSeq(pipe, n + 1, Len(pipe)) \in Seq(AllPieces)
        /\ Len(SubSeq(pipe, n + 1, Len(pipe))) = Len(pipe) - n
        /\ \A j \in 1 .. Len(pipe) - n : SubSeq(pipe, n + 1, Len(pipe))[j] = pipe[n + j]
    BY <1>1, <1>2, Suffix
  <2> QED
    BY <2>1
<1>5. AreParts(Flow, partial, pipe, chunk)
  BY <1>1, FlowParts DEF Flow
<1>6. AreParts(Flow', partial', pipe', chunk)
  <2>1. Flow' = (partial' \o pipe') \o chunk
    BY DEF Flow
  <2>2. AreParts((partial' \o pipe') \o chunk, partial', pipe', chunk)
    BY <1>1, <1>3, <1>4, FlowParts
  <2> QED
    BY <2>1, <2>2
<1>7. AreMoved(partial, pipe, Flow, n, d, partial', pipe')
  <2>1. \A j \in 1 .. Len(text) - d : partial'[j] = Flow[d + j]
    <3>1. ASSUME NEW j \in 1 .. Len(text) - d PROVE partial'[j] = Flow[d + j]
      <4>1. d + j \in 1 .. Len(text)
        BY <1>1
      <4>2. partial'[j] = text[d + j]
        BY <1>3
      <4> QED
        BY <4>1, <4>2
    <3> QED
      BY <3>1
  <2> QED
    BY <1>1, <1>2, <1>3, <1>4, <2>1 DEF AreMoved
<1>8. /\ Len(Flow') = Len(Flow) - d /\ Len(Flow') \in Nat
      /\ \A j \in 1 .. Len(Flow') : Flow'[j] = Flow[d + j]
  BY <1>1, <1>5, <1>6, <1>7, LeftOver
<1> QED
  BY <1>3, <1>4, <1>8

\* What was read belongs to the part of the stream that the receiver has got or
\* the parser keeps.
LEMMA ReadSomeStep == ASSUME IInv, ReadSome PROVE IInv'
<1>1. /\ TypeOK /\ Control /\ Numbered /\ Delivered /\ Complete /\ InFlight /\ listening
      /\ UNCHANGED <<noise, process, lock, logged, serialized, chunk>>
  BY DEF IInv, ReadSome, Control, writerVars
<1>2. PICK z \in 1 .. Len(Flow) + 1 : NoiseAt(z) /\ InStream(z)
  BY <1>1 DEF InFlight
<1>3. PICK n \in 1 .. Len(pipe), m \in Nat, text \in Seq(AllPieces), g \in Nat :
              /\ Len(text) = Len(partial) + n /\ \A j \in 1 .. Len(text) : text[j] = Flow[j]
              /\ g = IF z <= Len(text) THEN z - 1 ELSE Len(text)
              /\ g <= Len(text) /\ m * Pieces \in Nat /\ g - (m * Pieces) \in 0 .. Pieces - 1
              /\ Len(consumed) + m <= Len(logged)
              /\ consumed' \in Seq(Messages) /\ Len(consumed') = Len(consumed) + m
              /\ \A k \in 1 .. Len(consumed) + m : consumed'[k] = logged[k]
              /\ pipe' = SubSeq(pipe, n + 1, Len(pipe))
              /\ partial' = SubSeq(text, (m * Pieces) + 1, g)
              /\ errors' = IF g < Len(text) THEN errors \cup {"syntax"} ELSE errors
              /\ listening' = ~(g < Len(text)) /\ handling' = ~(g < Len(text))
  BY <1>2, ReadSomeEffect
<1>4. PICK d \in Nat : d = m * Pieces
  BY <1>3
<1>5. /\ Len(text) \in Nat /\ Len(partial) \in Nat /\ Len(pipe) \in Nat /\ Len(Flow) \in Nat
      /\ n \in Nat /\ n <= Len(pipe) /\ g - d \in 0 .. Pieces - 1 /\ d <= g /\ d <= Len(text)
      /\ Len(Flow) = Len(partial) + Len(pipe) + Len(chunk) /\ Len(chunk) \in Nat
  <2>1. /\ Len(text) \in Nat /\ Len(partial) \in Nat /\ Len(pipe) \in Nat /\ Len(Flow) \in Nat
        /\ Len(Flow) = Len(partial) + Len(pipe) + Len(chunk) /\ Len(chunk) \in Nat
    BY <1>1, FlowFacts
  <2>2. g - d \in 0 .. Pieces - 1 /\ g <= Len(text)
    BY <1>3, <1>4
  <2> QED
    BY <2>1, <2>2, Sizes
<1>6. TypeOK'
  <2>1. partial' \in Seq(AllPieces) /\ Len(partial') < Pieces
    <3>1. /\ SubSeq(text, d + 1, g) \in Seq(AllPieces)
          /\ Len(SubSeq(text, d + 1, g)) = g - (d + 1) + 1
      <4>1. d + 1 \in Nat \ {0} /\ d + 1 <= g + 1 /\ g <= Len(text)
        BY <1>3, <1>5
      <4> QED
        BY <4>1, Part
    <3>2. partial' = SubSeq(text, d + 1, g)
      BY <1>3, <1>4
    <3>3. g - (d + 1) + 1 < Pieces
      BY <1>5, Sizes
    <3> QED
      BY <3>1, <3>2, <3>3
  <2>2. pipe' \in Seq(AllPieces) /\ Len(pipe') <= PipeCapacity
    <3>1. pipe \in Seq(AllPieces) /\ Len(pipe) <= PipeCapacity
      BY <1>1 DEF TypeOK
    <3>2. /\ SubSeq(pipe, n + 1, Len(pipe)) \in Seq(AllPieces)
          /\ Len(SubSeq(pipe, n + 1, Len(pipe))) = Len(pipe) - n
      BY <1>5, <3>1, Suffix
    <3>3. pipe' = SubSeq(pipe, n + 1, Len(pipe))
      BY <1>3
    <3> QED
      BY <1>5, <3>1, <3>2, <3>3, Sizes
  <2>3. /\ consumed' \in Seq(Messages) /\ errors' \subseteq {"truncated", "syntax"}
        /\ listening' \in BOOLEAN /\ handling' \in BOOLEAN
    <3>1. errors \subseteq {"truncated", "syntax"}
      BY <1>1 DEF TypeOK
    <3>2. errors' = errors \/ errors' = errors \cup {"syntax"}
      BY <1>3
    <3>3. consumed' \in Seq(Messages) /\ listening' \in BOOLEAN /\ handling' \in BOOLEAN
      BY <1>3
    <3> QED
      BY <3>1, <3>2, <3>3
  <2> QED
    BY <1>1, <2>1, <2>2, <2>3 DEF TypeOK, Messages, AllPieces, Noise
<1>7. Control' /\ Numbered'
  <2>1. handling' => listening'
    BY <1>3
  <2> QED
    BY <1>1, <2>1 DEF Control, Numbered, Count
<1>8. Delivered'
  BY <1>1, <1>3 DEF Delivered
<1>9. InFlight' /\ Complete'
  <2>1. CASE g < Len(text)
    <3>1. ~listening'
      BY <1>3, <2>1
    <3> QED
      BY <3>1 DEF InFlight, Complete
  <2>2. CASE g = Len(text)
    <3>1. z > Len(text)
      BY <1>3, <1>5, <2>2
    <3>2. pipe' = SubSeq(pipe, n + 1, Len(pipe)) /\ partial' = SubSeq(text, d + 1, Len(text))
      BY <1>3, <1>4, <2>2
    <3>3. /\ Len(partial') = Len(text) - d /\ Len(pipe') = Len(pipe) - n
          /\ Len(Flow') = Len(Flow) - d /\ Len(Flow') \in Nat
          /\ \A j \in 1 .. Len(Flow') : Flow'[j] = Flow[d + j]
      <4>1. /\ Len(text) = Len(partial) + n /\ \A j \in 1 .. Len(text) : text[j] = Flow[j]
        BY <1>3
      <4>2. TypeOK /\ chunk' = chunk /\ d <= Len(text)
        BY <1>1, <1>5
      <4> QED
        BY <3>2, <4>1, <4>2, FlowMovesOn
    <3>4. Start \in Nat /\ Start' = Start + d
      <4>1. Len(consumed) \in Nat /\ Start \in Nat
        BY <1>1, StartFacts
      <4>2. (Len(consumed) + m) * Pieces = (Len(consumed) * Pieces) + (m * Pieces)
        BY <4>1, Sizes, Products
      <4>3. Start' = (Len(consumed) + m) * Pieces
        BY <1>3 DEF Start
      <4> QED
        BY <1>4, <4>1, <4>2, <4>3 DEF Start
    <3>5. PICK z2 : z2 = z - d
      OBVIOUS
    <3>6. /\ z \in Nat /\ z >= 1 /\ z <= Len(Flow) + 1 /\ z > Len(text)
          /\ z2 \in 1 .. Len(Flow') + 1
      BY <1>5, <3>1, <3>3, <3>5
    <3>7. NoiseAt(z2)'
      <4>1. CASE noise
        <5>1. z \in (Len(partial) + 1) .. (Len(partial) + Len(pipe)) /\ Flow[z] = Noise
          BY <1>2, <4>1 DEF NoiseAt
        <5>2. Len(text) = Len(partial) + n
          BY <1>3
        <5>3. z2 \in (Len(partial') + 1) .. (Len(partial') + Len(pipe'))
          BY <1>5, <3>3, <3>5, <3>6, <5>1, <5>2
        <5>4. z2 \in 1 .. Len(Flow') /\ d + z2 = z
          BY <1>5, <3>3, <3>5, <3>6, <5>1
        <5>5. Flow'[z2] = Noise
          BY <3>3, <5>1, <5>4
        <5> QED
          BY <1>1, <4>1, <5>3, <5>5 DEF NoiseAt, Noise
      <4>2. CASE ~noise
        <5>1. z = Len(Flow) + 1
          BY <1>2, <4>2 DEF NoiseAt
        <5>2. z2 = Len(Flow') + 1
          BY <1>5, <3>3, <3>5, <5>1
        <5> QED
          BY <1>1, <4>2, <5>2 DEF NoiseAt
      <4> QED
        BY <4>1, <4>2
    <3>8. InStream(z2)'
      <4>1. ASSUME NEW j \in 1 .. Len(Flow'), j # z2 PROVE Flow'[j] = Piece(Rank(j, z2))'
        <5>1. /\ j \in Nat /\ j >= 1 /\ d + j \in 1 .. Len(Flow) /\ d + j # z
              /\ (d + j < z <=> j < z2)
          BY <1>5, <3>3, <3>5, <3>6, <4>1
        <5>2. Flow'[j] = Piece(Rank(d + j, z))
          BY <1>2, <3>3, <5>1 DEF InStream
        <5>3. Rank(d + j, z) = Rank(j, z2)'
          BY <3>4, <5>1 DEF Rank
        <5>4. Piece(Rank(j, z2))' = Piece(Rank(d + j, z))
          BY <1>1, <5>3 DEF Piece
        <5> QED
          BY <5>2, <5>4
      <4> QED
        BY <4>1 DEF InStream
    <3>9. InFlight'
      BY <3>6, <3>7, <3>8 DEF InFlight
    <3>10. Produced' = Produced
      BY <1>1, <1>5, <3>3, <3>4 DEF Produced
    <3>11. Complete'
      BY <1>1, <3>10 DEF Complete
    <3> QED
      BY <3>9, <3>11
  <2> QED
    BY <1>3, <1>5, <2>1, <2>2
<1> QED
  BY <1>6, <1>7, <1>8, <1>9 DEF IInv

--------------------------------------------------------------------------------
(* The invariant. *)

LEMMA InitIInv == Init => IInv
<1> SUFFICES ASSUME Init PROVE IInv
  OBVIOUS
<1>1. /\ noise = FALSE /\ process = "running" /\ lock = None /\ logged = <<>>
      /\ serialized = 0 /\ chunk = <<>> /\ pipe = <<>>
      /\ listening = TRUE /\ handling = FALSE
      /\ partial = <<>> /\ consumed = <<>> /\ errors = {}
  BY DEF Init
<1>2. /\ \A S : <<>> \in Seq(S)
      /\ Len(<<>>) = 0 /\ DOMAIN <<>> = {}
  <2>1. Len(<<>>) = 0 /\ DOMAIN <<>> = {}
    OBVIOUS
  <2> QED
    BY <2>1, EmptySeq
<1>3. TypeOK
  <2>1. logged \in Seq(Messages) /\ consumed \in Seq(Messages)
    BY <1>1, <1>2
  <2>2. chunk \in Seq(AllPieces) /\ pipe \in Seq(AllPieces) /\ partial \in Seq(AllPieces)
    BY <1>1, <1>2
  <2>3. Len(chunk) <= WriteBuffer /\ Len(pipe) <= PipeCapacity /\ Len(partial) < Pieces
    BY <1>1, <1>2, Sizes
  <2>4. serialized \in 0 .. Pieces
    BY <1>1, Sizes
  <2> QED
    BY <1>1, <2>1, <2>2, <2>3, <2>4 DEF TypeOK
<1>4. Control /\ Numbered /\ Delivered
  BY <1>1, <1>2 DEF Control, Numbered, Delivered
<1>5. Flow = <<>>
  BY <1>1 DEF Flow
<1>6. InFlight
  <2>1. NoiseAt(1) /\ InStream(1) /\ 1 \in 1 .. Len(Flow) + 1
    BY <1>1, <1>5 DEF NoiseAt, InStream
  <2> QED
    BY <2>1 DEF InFlight
<1>7. Produced = 0 /\ Len(logged) * Pieces = 0
  BY <1>1, <1>5, Sizes DEF Produced, Start
<1> QED
  BY <1>1, <1>6, <1>7, <1>3, <1>4 DEF IInv, Complete

LEMMA NextIInv == ASSUME IInv, [Next]_vars PROVE IInv'
<1>1. /\ errors \subseteq {"truncated", "syntax"}
      /\ listening \in BOOLEAN /\ handling \in BOOLEAN
      /\ lock # None => process = "running"
      /\ handling => listening
  BY DEF IInv, TypeOK, Control
<1>2. ASSUME NEW t \in Threads, LogMessage(t) PROVE IInv'
  BY <1>2, LogMessageStep
<1>3. CASE Serialize
  BY <1>3, SerializeStep
<1>4. CASE Write
  BY <1>4, WriteStep
<1>5. CASE WriteFails
  BY <1>1, <1>5, EndStep DEF WriteFails
<1>6. CASE Unlock
  BY <1>6, UnlockStep
<1>7. CASE MakeNoise
  BY <1>7, MakeNoiseStep
<1>8. CASE ClientEnds
  BY <1>8, EndStep DEF ClientEnds
<1>9. CASE BeginEvent
  BY <1>1, <1>9, QuietStep DEF BeginEvent
<1>10. CASE ReadSome
  BY <1>10, ReadSomeStep
<1>11. CASE ReadWouldBlock
  BY <1>1, <1>11, QuietStep DEF ReadWouldBlock
<1>12. CASE ReadEof
  BY <1>1, <1>12, QuietStep DEF ReadEof
<1>13. CASE UNCHANGED vars
  BY <1>1, <1>13, QuietStep DEF vars, readerVars
<1> QED
  BY <1>2, <1>3, <1>4, <1>5, <1>6, <1>7, <1>8, <1>9, <1>10, <1>11, <1>12, <1>13
  DEF Next, Client, Reader

LEMMA Invariance == Spec => []IInv
<1>1. Init => IInv
  BY InitIInv
<1>2. IInv /\ [Next]_vars => IInv'
  BY NextIInv
<1> QED
  BY <1>1, <1>2, PTL DEF Spec

\* Every variable has its type, with the output buffer of the writer, the pipe and
\* what the parser keeps within their bounds.
THEOREM TypeCorrect == Spec => []TypeOK
<1>1. IInv => TypeOK
  BY DEF IInv
<1> QED
  BY <1>1, Invariance, PTL

--------------------------------------------------------------------------------
(* The stream implements LogChannel. *)

\* Reading a message means receiving it, an error comes from the noise.
LEMMA ReadSomeReceives == ASSUME IInv, ReadSome PROVE Channel!Receive
<1>1. /\ TypeOK /\ Control /\ Delivered /\ InFlight /\ listening
      /\ UNCHANGED <<logged, process, noise>>
  BY DEF IInv, ReadSome, Control, writerVars
<1>2. PICK z \in 1 .. Len(Flow) + 1 : NoiseAt(z) /\ InStream(z)
  BY <1>1 DEF InFlight
<1>3. PICK n \in 1 .. Len(pipe), m \in Nat, text \in Seq(AllPieces), g \in Nat :
              /\ Len(text) = Len(partial) + n /\ \A j \in 1 .. Len(text) : text[j] = Flow[j]
              /\ g = IF z <= Len(text) THEN z - 1 ELSE Len(text)
              /\ g <= Len(text) /\ m * Pieces \in Nat /\ g - (m * Pieces) \in 0 .. Pieces - 1
              /\ Len(consumed) + m <= Len(logged)
              /\ consumed' \in Seq(Messages) /\ Len(consumed') = Len(consumed) + m
              /\ \A k \in 1 .. Len(consumed) + m : consumed'[k] = logged[k]
              /\ pipe' = SubSeq(pipe, n + 1, Len(pipe))
              /\ partial' = SubSeq(text, (m * Pieces) + 1, g)
              /\ errors' = IF g < Len(text) THEN errors \cup {"syntax"} ELSE errors
              /\ listening' = ~(g < Len(text)) /\ handling' = ~(g < Len(text))
  BY <1>2, ReadSomeEffect
<1>4. \E k \in Len(consumed) .. Len(logged) : consumed' = SubSeq(logged, 1, k)
  <2> DEFINE k == Len(consumed) + m
  <2>1. /\ logged \in Seq(Messages) /\ Len(consumed) \in Nat /\ Len(logged) \in Nat
        /\ k \in Nat /\ k \in Len(consumed) .. Len(logged) /\ k <= Len(logged)
    <3>1. logged \in Seq(Messages) /\ Len(consumed) \in Nat /\ Len(logged) \in Nat
      BY <1>1, StartFacts DEF TypeOK
    <3>2. Len(consumed) + m <= Len(logged) /\ m \in Nat
      BY <1>3
    <3> QED
      BY <3>1, <3>2
  <2>2. /\ consumed' \in Seq(Messages) /\ Len(consumed') = k
        /\ \A j \in 1 .. k : consumed'[j] = logged[j]
    BY <1>3
  <2> HIDE DEF k
  <2>3. /\ SubSeq(logged, 1, k) \in Seq(Messages) /\ Len(SubSeq(logged, 1, k)) = k
        /\ \A j \in 1 .. k : SubSeq(logged, 1, k)[j] = logged[j]
    BY <2>1
  <2>4. consumed' = SubSeq(logged, 1, k)
    BY <2>1, <2>2, <2>3, SeqEqual
  <2> QED
    BY <2>1, <2>4
<1>5. \/ UNCHANGED <<errors, listening>>
      \/ noise /\ errors' = errors \cup {"syntax"} /\ listening' = FALSE
  <2>1. CASE g < Len(text)
    <3>1. /\ Len(text) \in Nat /\ Len(pipe) \in Nat /\ Len(partial) \in Nat /\ Len(Flow) \in Nat
          /\ Len(text) <= Len(Flow) /\ z \in Nat
      <4>1. /\ Len(Flow) = Len(partial) + Len(pipe) + Len(chunk) /\ Len(Flow) \in Nat
            /\ Len(partial) \in Nat /\ Len(pipe) \in Nat /\ Len(chunk) \in Nat
        BY <1>1, FlowFacts
      <4>2. Len(text) = Len(partial) + n
        BY <1>3
      <4> QED
        BY <4>1, <4>2
    <3>2. z # Len(Flow) + 1
      BY <1>3, <2>1, <3>1
    <3>3. noise
      BY <1>2, <3>2 DEF NoiseAt
    <3> QED
      BY <1>3, <2>1, <3>3
  <2>2. CASE ~(g < Len(text))
    BY <1>1, <1>3, <2>2 DEF TypeOK
  <2> QED
    BY <2>1, <2>2
<1> QED
  BY <1>1, <1>4, <1>5 DEF Channel!Receive

\* What the parser holds at the end of the stream is the beginning of a message
\* that was logged and will not arrive.
LEMMA ReadEofStops == ASSUME IInv, ReadEof PROVE Channel!Stop
<1>1. /\ TypeOK /\ Control /\ Delivered /\ InFlight /\ Complete /\ listening
      /\ pipe = <<>> /\ process = "ended" /\ lock = None /\ chunk = <<>>
      /\ listening' = FALSE /\ UNCHANGED <<logged, consumed, process, noise>>
      /\ errors' = IF partial # <<>> THEN errors \cup {"truncated"} ELSE errors
  BY DEF IInv, TypeOK, ReadEof, WritersGone, Control, writerVars
<1>2. PICK z \in 1 .. Len(Flow) + 1 : NoiseAt(z)
  BY <1>1 DEF InFlight
<1>3. /\ Len(Flow) = Len(partial) /\ Len(partial) \in Nat
      /\ Start \in Nat /\ Len(consumed) \in Nat /\ Len(logged) \in Nat
  BY <1>1, FlowFacts, StartFacts
<1>4. ~noise
  <2>1. Len(pipe) = 0
    BY <1>1
  <2> QED
    BY <1>2, <1>3, <2>1 DEF NoiseAt
<1>5. ASSUME partial # <<>> PROVE Len(consumed) < Len(logged)
  <2>1. Len(partial) > 0
    BY <1>1, <1>5, <1>3 DEF TypeOK
  <2>2. Start + Len(partial) <= Len(logged) * Pieces
    BY <1>1, <1>3, <1>4 DEF Complete, Produced
  <2>3. Len(logged) * Pieces \in Nat
    BY <1>1, StartFacts
  <2>4. Len(logged) # Len(consumed)
    BY <1>3, <2>1, <2>2, <2>3 DEF Start
  <2>5. Len(consumed) <= Len(logged)
    BY <1>1 DEF Delivered
  <2> QED
    BY <1>3, <2>4, <2>5
<1> QED
  BY <1>1, <1>5 DEF Channel!Stop

\* Every step of the stream is a step of the channel or changes nothing there.
LEMMA ChannelStep == ASSUME IInv, [Next]_vars PROVE [Channel!Next]_(Channel!vars)
<1> USE DEF writerVars, readerVars
<1>1. ASSUME NEW t \in Threads, LogMessage(t) PROVE Channel!Next
  <2> DEFINE m == <<t, Count(t) + 1>>
  <2>1. /\ logged \in Seq(Messages) /\ Numbered /\ Count(t) < MaxMessages
    BY <1>1 DEF IInv, TypeOK, LogMessage
  <2>2. m \in Messages /\ \A k \in DOMAIN logged : logged[k] # m
    BY <2>1, NewMessage
  <2>3. /\ process = "running" /\ logged' = Append(logged, m)
        /\ UNCHANGED <<consumed, errors, process, noise, listening>>
    BY <1>1 DEF LogMessage
  <2>4. DOMAIN logged = 1 .. Len(logged)
    BY <2>1
  <2> HIDE DEF m
  <2>5. Channel!Send(m)
    BY <2>2, <2>3, <2>4 DEF Channel!Send
  <2> QED
    BY <2>2, <2>5 DEF Channel!Next
<1>2. CASE Serialize \/ Write \/ Unlock \/ BeginEvent \/ ReadWouldBlock \/ UNCHANGED vars
  BY <1>2 DEF Serialize, Write, Unlock, BeginEvent, ReadWouldBlock, vars, Channel!vars
<1>3. CASE WriteFails \/ ClientEnds
  <2>1. /\ process = "running" /\ (process' = "ended" \/ (~listening /\ process' = "aborted"))
        /\ UNCHANGED <<noise, logged, consumed, errors, listening>>
    <3>1. lock # None => process = "running"
      BY DEF IInv, Control
    <3>2. CASE WriteFails
      BY <3>1, <3>2 DEF WriteFails, EndWith
    <3>3. CASE ClientEnds
      BY <3>3 DEF ClientEnds, EndWith
    <3> QED
      BY <1>3, <3>2, <3>3
  <2> QED
    BY <2>1 DEF Channel!Next, Channel!End
<1>4. CASE MakeNoise
  BY <1>4 DEF MakeNoise, Channel!Next, Channel!MakeNoise
<1>5. CASE ReadSome
  BY <1>5, ReadSomeReceives DEF Channel!Next
<1>6. CASE ReadEof
  BY <1>6, ReadEofStops DEF Channel!Next
<1> QED
  BY <1>1, <1>2, <1>3, <1>4, <1>5, <1>6 DEF Next, Client, Reader

\* The way of a message from log::write_message over the output buffer of the
\* writer, the pipe, the buffer of the reader and its parser implements LogChannel.
THEOREM KeepsChannel == Spec => ChannelSpec
<1>1. Init => Channel!Init
  BY DEF Init, Channel!Init
<1>2. IInv /\ [Next]_vars => [Channel!Next]_(Channel!vars)
  BY ChannelStep
<1> QED
  BY <1>1, <1>2, Invariance, PTL DEF Spec, ChannelSpec, Channel!Spec

--------------------------------------------------------------------------------
(* What the channel promises. *)

NoneTwice == \A j, k \in 1 .. Len(logged) : logged[j] = logged[k] => j = k

ErrorsAreReal == /\ "syntax" \in errors => noise
                 /\ "truncated" \in errors => process = "ended" /\ Len(consumed) < Len(logged)

\* Inductive with the steps of LogChannel: a truncated message can no longer
\* arrive, for the reader is gone, nor can it be the last one, for the client is.
Promised == /\ NoneTwice /\ ErrorsAreReal
            /\ "truncated" \in errors => ~listening

LEMMA PromisesAreKept ==
    ASSUME IInv, Promised, [Channel!Next]_(Channel!vars) PROVE Promised'
<1> USE DEF Promised
<1>1. logged \in Seq(Messages) /\ Len(logged) \in Nat
  BY DEF IInv, TypeOK
<1>2. ASSUME NEW m \in Messages, Channel!Send(m) PROVE Promised'
  <2>1. /\ UNCHANGED <<consumed, errors, process, noise, listening>> /\ process = "running"
        /\ logged' = Append(logged, m) /\ \A k \in 1 .. Len(logged) : logged[k] # m
    BY <1>2 DEF Channel!Send
  <2>2. /\ Len(logged') = Len(logged) + 1 /\ logged'[Len(logged) + 1] = m
        /\ \A k \in 1 .. Len(logged) : logged'[k] = logged[k]
    BY <1>1, <2>1
  <2>3. ASSUME NEW j \in 1 .. Len(logged'), NEW k \in 1 .. Len(logged'), logged'[j] = logged'[k]
        PROVE  j = k
    <3>1. /\ j \in 1 .. Len(logged) \/ j = Len(logged) + 1
          /\ k \in 1 .. Len(logged) \/ k = Len(logged) + 1
      BY <1>1, <2>2
    <3>2. CASE j \in 1 .. Len(logged) /\ k \in 1 .. Len(logged)
      BY <2>2, <2>3, <3>2 DEF NoneTwice
    <3>3. CASE j = Len(logged) + 1 \/ k = Len(logged) + 1
      BY <2>1, <2>2, <2>3, <3>1, <3>3
    <3> QED
      BY <3>1, <3>2, <3>3
  <2>4. NoneTwice'
    BY <2>3 DEF NoneTwice
  <2>5. ErrorsAreReal'
    BY <2>1 DEF ErrorsAreReal
  <2> QED
    BY <2>1, <2>4, <2>5
<1>3. CASE Channel!MakeNoise
  BY <1>3 DEF Channel!MakeNoise, NoneTwice, ErrorsAreReal
<1>4. CASE Channel!End
  BY <1>4 DEF Channel!End, NoneTwice, ErrorsAreReal
<1>5. CASE Channel!Receive
  BY <1>5 DEF Channel!Receive, NoneTwice, ErrorsAreReal
<1>6. CASE Channel!Stop
  BY <1>6 DEF Channel!Stop, NoneTwice, ErrorsAreReal
<1>7. CASE UNCHANGED Channel!vars
  BY <1>7 DEF Channel!vars, NoneTwice, ErrorsAreReal
<1> QED
  BY <1>2, <1>3, <1>4, <1>5, <1>6, <1>7 DEF Channel!Next

LEMMA Promises == Spec => []Promised
<1>1. Init => Promised
  BY DEF Init, Promised, NoneTwice, ErrorsAreReal
<1>2. IInv /\ Promised /\ [Next]_vars => Promised'
  BY ChannelStep, PromisesAreKept
<1> QED
  BY <1>1, <1>2, Invariance, PTL DEF Spec

\* What arrives is what was logged, in the order of the time stamps, without a gap
\* and none of it twice, whichever threads logged it.
THEOREM ArrivesInOrder == Spec => [](Delivered /\ NoneTwice)
<1>1. IInv /\ Promised => Delivered /\ NoneTwice
  BY DEF IInv, Promised
<1> QED
  BY <1>1, Invariance, Promises, PTL

\* A syntax error needs something else on stderr, a truncated message a client
\* that has ended, and then a message is missing for good.
THEOREM ErrorsHaveReasons == Spec => []ErrorsAreReal
<1>1. Promised => ErrorsAreReal
  BY DEF Promised
<1> QED
  BY <1>1, Promises, PTL

--------------------------------------------------------------------------------
(* Nothing is lost. *)

LEMMA RemoveOnly ==
    ASSUME NEW S, NEW s \in Seq(S), NEW e, NEW p \in 1 .. Len(s), s[p] = e,
           \A i \in 1 .. Len(s) : s[i] = e => i = p
    PROVE  RemoveFirst(s, e) = SubSeq(s, 1, p - 1) \o SubSeq(s, p + 1, Len(s))
<1> DEFINE I == {i \in 1 .. Len(s) : s[i] = e}
<1>1. I = {p}
  OBVIOUS
<1>2. Min(I) = p
  <2>1. p <= p
    OBVIOUS
  <2> QED
    BY <1>1, <2>1 DEF Min
<1>3. SelectInSeq(s, LAMBDA v : v = e) = p
  BY <1>1, <1>2 DEF SelectInSeq
<1>4. \E i \in 1 .. Len(s) : s[i] = e
  OBVIOUS
<1>5. RemoveFirst(s, e) = RemoveAt(s, SelectInSeq(s, LAMBDA v : v = e))
  BY <1>4 DEF RemoveFirst
<1> QED
  BY <1>3, <1>5 DEF RemoveAt

LEMMA RemoveNone ==
    ASSUME NEW s, NEW e, \A i \in 1 .. Len(s) : s[i] # e
    PROVE  RemoveFirst(s, e) = s
BY DEF RemoveFirst

\* s is the stretch of the stream from piece "from" on up to piece "to".
IsStretch(s, from, to) == /\ s \in Seq(AllPieces) /\ from \in Nat /\ to \in Nat
                          /\ to = from + Len(s)
                          /\ \A j \in 1 .. Len(s) : s[j] = Piece(from + (j - 1))

LEMMA Joined ==
    ASSUME NEW s, NEW t, NEW a, NEW b, NEW c, IsStretch(s, a, b), IsStretch(t, b, c)
    PROVE  IsStretch(s \o t, a, c)
<1>1. /\ s \in Seq(AllPieces) /\ t \in Seq(AllPieces) /\ Len(s) \in Nat /\ Len(t) \in Nat
      /\ a \in Nat /\ b \in Nat /\ c \in Nat /\ b = a + Len(s) /\ c = b + Len(t)
      /\ \A j \in 1 .. Len(s) : s[j] = Piece(a + (j - 1))
      /\ \A j \in 1 .. Len(t) : t[j] = Piece(b + (j - 1))
  BY DEF IsStretch
<1>2. /\ s \o t \in Seq(AllPieces) /\ Len(s \o t) = Len(s) + Len(t)
      /\ \A j \in 1 .. Len(s) + Len(t) :
            (s \o t)[j] = IF j <= Len(s) THEN s[j] ELSE t[j - Len(s)]
  BY <1>1, Concatenation
<1>3. ASSUME NEW j \in 1 .. Len(s) + Len(t) PROVE (s \o t)[j] = Piece(a + (j - 1))
  <2>1. CASE j <= Len(s)
    BY <1>1, <1>2, <2>1
  <2>2. CASE Len(s) < j
    <3>1. PICK k : k = j - Len(s)
      OBVIOUS
    <3>2. k \in 1 .. Len(t) /\ b + (k - 1) = a + (j - 1) /\ ~(j <= Len(s))
      BY <1>1, <2>2, <3>1
    <3>3. (s \o t)[j] = t[k] /\ t[k] = Piece(b + (k - 1))
      BY <1>1, <1>2, <3>1, <3>2
    <3> QED
      BY <3>2, <3>3
  <2> QED
    BY <1>1, <2>1, <2>2
<1>4. c = a + (Len(s) + Len(t))
  BY <1>1
<1> QED
  BY <1>1, <1>2, <1>3, <1>4 DEF IsStretch

LEMMA SameStretch ==
    ASSUME NEW s, NEW t, NEW a, NEW b, IsStretch(s, a, b), IsStretch(t, a, b)
    PROVE  s = t
<1>1. s \in Seq(AllPieces) /\ t \in Seq(AllPieces) /\ Len(s) = Len(t)
  BY DEF IsStretch
<1>2. \A j \in 1 .. Len(s) : s[j] = t[j]
  BY <1>1 DEF IsStretch
<1> QED
  BY <1>1, <1>2, SeqEqual

\* The pieces of messages that are the first ones logged.
LEMMA AllOfIsStretch ==
    ASSUME TypeOK, NEW messages \in Seq(Messages), Len(messages) <= Len(logged),
           \A k \in 1 .. Len(messages) : messages[k] = logged[k]
    PROVE  IsStretch(AllOf(messages), 0, Len(messages) * Pieces)
<1>1. PICK l \in Nat : l = Len(messages)
  OBVIOUS
<1>2. PICK all \in Nat : all = l * Pieces
  BY <1>1, Sizes, Products
<1>3. ASSUME NEW n \in 1 .. all
      PROVE  /\ ((n - 1) \div Pieces) + 1 \in 1 .. l /\ ((n - 1) % Pieces) + 1 \in 1 .. Pieces
             /\ n - 1 \in Nat
  <2>1. n - 1 \in Nat /\ n - 1 < l * Pieces
    BY <1>2
  <2>2. (n - 1) \div Pieces \in Nat /\ (n - 1) % Pieces \in 0 .. Pieces - 1
    BY <2>1, Sizes, Division
  <2>3. (n - 1) \div Pieces < l
    BY <1>1, <2>1, Sizes, Below
  <2> QED
    BY <1>1, <2>1, <2>2, <2>3, Sizes
<1>4. AllOf(messages) = [n \in 1 .. all |->
          <<messages[((n - 1) \div Pieces) + 1], ((n - 1) % Pieces) + 1>>]
  BY <1>1, <1>2 DEF AllOf
<1>5. ASSUME NEW n \in 1 .. all
      PROVE  AllOf(messages)[n] \in AllPieces /\ AllOf(messages)[n] = Piece(0 + (n - 1))
  <2>1. AllOf(messages)[n] = <<messages[((n - 1) \div Pieces) + 1], ((n - 1) % Pieces) + 1>>
    BY <1>4
  <2>2. /\ messages[((n - 1) \div Pieces) + 1] = logged[((n - 1) \div Pieces) + 1]
        /\ messages[((n - 1) \div Pieces) + 1] \in Messages
    BY <1>1, <1>3
  <2>3. 0 + (n - 1) = n - 1
    BY <1>3
  <2>4. AllOf(messages)[n] = Piece(n - 1)
    BY <2>1, <2>2 DEF Piece
  <2>5. AllOf(messages)[n] \in AllPieces
    BY <1>3, <2>1, <2>2 DEF AllPieces
  <2> QED
    BY <2>3, <2>4, <2>5
<1>6. AllOf(messages) \in [1 .. all -> AllPieces]
  BY <1>4, <1>5
<1>7. AllOf(messages) \in Seq(AllPieces) /\ Len(AllOf(messages)) = all
  BY <1>2, <1>6, FunctionIsSequence
<1> QED
  BY <1>1, <1>2, <1>5, <1>7 DEF IsStretch


LEMMA PieceIsNoNoise == ASSUME NEW n \in Nat PROVE Piece(n) # Noise
<1>1. (n % Pieces) + 1 # 0
  <2>1. n % Pieces \in 0 .. Pieces - 1
    BY Sizes, Division
  <2> QED
    BY <2>1, Sizes
<1>2. Piece(n)[2] = (n % Pieces) + 1 /\ Noise[2] = 0
  BY DEF Piece, Noise
<1> QED
  BY <1>1, <1>2

\* A part of the flow without the noise, from place "first" of the flow on.
LEMMA PartIsStretch ==
    ASSUME TypeOK, Complete, listening, NEW z \in 1 .. Len(Flow) + 1, NoiseAt(z), InStream(z),
           NEW s \in Seq(AllPieces), NEW first \in Nat, NEW from \in Nat,
           first + Len(s) <= Len(Flow),
           \A j \in 1 .. Len(s) : s[j] = Flow[first + j],
           \/ first + Len(s) < z /\ from = Start + first
           \/ z <= first /\ from + 1 = Start + first
    PROVE  IsStretch(s, from, from + Len(s))
<1>1. Len(s) \in Nat /\ Len(Flow) \in Nat /\ Start \in Nat /\ z \in Nat
  BY FlowFacts, StartFacts
<1>2. ASSUME NEW j \in 1 .. Len(s) PROVE s[j] = Piece(from + (j - 1))
  <2>1. first + j \in 1 .. Len(Flow) /\ first + j # z
    BY <1>1
  <2>2. s[j] = Piece(Rank(first + j, z))
    BY <2>1 DEF InStream
  <2>3. Rank(first + j, z) = from + (j - 1)
    BY <1>1, <2>1 DEF Rank
  <2> QED
    BY <2>2, <2>3
<1> QED
  BY <1>1, <1>2 DEF IsStretch

\* What is in the pipe but for the noise.
LEMMA SentIsStretch ==
    ASSUME TypeOK, Complete, listening, NEW z \in 1 .. Len(Flow) + 1, NoiseAt(z), InStream(z)
    PROVE  IsStretch(RemoveFirst(pipe, Noise), Start + Len(partial),
                     (Start + Len(partial)) + (Len(pipe) - (IF noise THEN 1 ELSE 0)))
<1>1. /\ Len(partial) \in Nat /\ Len(pipe) \in Nat /\ Len(chunk) \in Nat /\ Start \in Nat
      /\ Len(Flow) = Len(partial) + Len(pipe) + Len(chunk) /\ z \in Nat
      /\ pipe \in Seq(AllPieces)
      /\ \A j \in 1 .. Len(pipe) : pipe[j] = Flow[Len(partial) + j]
  BY FlowFacts, StartFacts DEF TypeOK
<1>2. ASSUME NEW j \in 1 .. Len(pipe), Len(partial) + j # z PROVE pipe[j] # Noise
  <2>1. Len(partial) + j \in 1 .. Len(Flow)
    BY <1>1
  <2>2. Flow[Len(partial) + j] = Piece(Rank(Len(partial) + j, z))
    BY <1>2, <2>1 DEF InStream
  <2>3. Rank(Len(partial) + j, z) \in Nat
    BY <1>2, <2>1, RankIsLogged
  <2> QED
    BY <1>1, <2>2, <2>3, PieceIsNoNoise
<1>3. CASE noise
  <2>1. PICK p : p = z - Len(partial)
    OBVIOUS
  <2>2. p \in 1 .. Len(pipe) /\ p \in Nat /\ Len(partial) + p = z /\ pipe[p] = Noise
    <3>1. z \in (Len(partial) + 1) .. (Len(partial) + Len(pipe)) /\ Flow[z] = Noise
      BY <1>3 DEF NoiseAt
    <3>2. p \in 1 .. Len(pipe) /\ p \in Nat /\ Len(partial) + p = z
      BY <1>1, <2>1, <3>1
    <3> QED
      BY <1>1, <3>1, <3>2
  <2>3. ASSUME NEW i \in 1 .. Len(pipe), pipe[i] = Noise PROVE i = p
    <3>1. Len(partial) + i = z
      BY <1>2, <2>3
    <3> QED
      BY <1>1, <2>1, <3>1
  <2> DEFINE s == SubSeq(pipe, 1, p - 1)
             t == SubSeq(pipe, p + 1, Len(pipe))
  <2>4. RemoveFirst(pipe, Noise) = s \o t
    BY <1>1, <2>2, <2>3, RemoveOnly
  <2>5. s \in Seq(AllPieces) /\ Len(s) = p - 1 /\ \A j \in 1 .. p - 1 : s[j] = pipe[j]
    <3>1. p - 1 \in Nat /\ p - 1 <= Len(pipe) /\ 1 <= (p - 1) + 1
      BY <1>1, <2>2
    <3> QED
      BY <1>1, <3>1
  <2>6. /\ t \in Seq(AllPieces) /\ Len(t) = Len(pipe) - p
        /\ \A j \in 1 .. Len(pipe) - p : t[j] = pipe[p + j]
    <3>1. p <= Len(pipe)
      BY <1>1, <2>2
    <3> QED
      BY <1>1, <2>2, <3>1, Suffix
  <2> HIDE DEF s, t
  <2>7. PICK from \in Nat : from = Start + Len(partial)
    BY <1>1
  <2>8. IsStretch(s, from, from + (p - 1))
    <3>1. \A j \in 1 .. Len(s) : s[j] = Flow[Len(partial) + j]
      BY <1>1, <2>2, <2>5
    <3>2. Len(partial) + Len(s) < z /\ Len(partial) + Len(s) <= Len(Flow)
      BY <1>1, <2>2, <2>5
    <3>3. IsStretch(s, from, from + Len(s))
      BY <1>1, <2>5, <2>7, <3>1, <3>2, PartIsStretch
    <3> QED
      BY <2>5, <3>3
  <2>9. IsStretch(t, from + (p - 1), (from + (p - 1)) + (Len(pipe) - p))
    <3>1. ASSUME NEW j \in 1 .. Len(t) PROVE t[j] = Flow[z + j]
      <4>1. p + j \in 1 .. Len(pipe) /\ Len(partial) + (p + j) = z + j
        <5>1. /\ Len(pipe) \in Nat /\ Len(partial) \in Nat /\ p \in 1 .. Len(pipe) /\ z = Len(partial) + p
              /\ j \in 1 .. Len(pipe) - p
          BY <1>1, <2>2, <2>6
        <5> QED
          BY <5>1
      <4> QED
        BY <1>1, <2>6, <4>1
    <3>2. z + Len(t) <= Len(Flow) /\ z <= z /\ from + (p - 1) \in Nat
      BY <1>1, <2>2, <2>6
    <3>3. (from + (p - 1)) + 1 = Start + z
      <4>1. /\ Start \in Nat /\ Len(partial) \in Nat /\ p \in Nat
            /\ from = Start + Len(partial) /\ z = Len(partial) + p
        BY <1>1, <2>2, <2>7
      <4> HIDE DEF Start
      <4> QED
        BY <4>1
    <3>4. IsStretch(t, from + (p - 1), (from + (p - 1)) + Len(t))
      BY <1>1, <2>6, <3>1, <3>2, <3>3, PartIsStretch
    <3> QED
      BY <2>6, <3>4
  <2>10. (from + (p - 1)) + (Len(pipe) - p) = from + (Len(pipe) - 1)
    BY <1>1, <2>2
  <2>11. IsStretch(s \o t, from, from + (Len(pipe) - 1))
    BY <2>8, <2>9, <2>10, Joined
  <2> QED
    BY <1>3, <2>4, <2>7, <2>11
<1>4. CASE ~noise
  <2>1. z = Len(Flow) + 1
    BY <1>4 DEF NoiseAt
  <2>2. \A j \in 1 .. Len(pipe) : pipe[j] # Noise
    BY <1>1, <1>2, <2>1
  <2>3. RemoveFirst(pipe, Noise) = pipe
    BY <2>2, RemoveNone
  <2>4. Len(partial) + Len(pipe) <= Len(Flow) /\ Len(partial) + Len(pipe) < z
    BY <1>1, <2>1
  <2>5. Start + Len(partial) \in Nat
    BY <1>1
  <2>6. IsStretch(pipe, Start + Len(partial), (Start + Len(partial)) + Len(pipe))
    BY <1>1, <2>4, <2>5, PartIsStretch
  <2>7. Len(pipe) - 0 = Len(pipe)
    BY <1>1
  <2> QED
    BY <1>4, <2>3, <2>6, <2>7
<1> QED
  BY <1>3, <1>4

\* The rest of the current message.
LEMMA RestIsStretch ==
    ASSUME TypeOK, logged # <<>>
    PROVE  IsStretch(PiecesOf(Last(logged), serialized + 1, Pieces),
                     ((Len(logged) - 1) * Pieces) + serialized, Len(logged) * Pieces)
<1>1. PICK q \in Nat : q = Len(logged) - 1 /\ q + 1 = Len(logged) /\ logged[q + 1] \in Messages
  <2>1. logged \in Seq(Messages) /\ Len(logged) \in Nat /\ Len(logged) # 0
    BY DEF TypeOK
  <2>2. Len(logged) - 1 \in Nat /\ (Len(logged) - 1) + 1 = Len(logged) /\ Len(logged) \in 1 .. Len(logged)
    BY <2>1
  <2>3. logged[Len(logged)] \in Messages
    BY <2>1, <2>2
  <2> QED
    BY <2>2, <2>3
<1>2. PICK all \in Nat : all = q * Pieces
  BY Sizes, Products
<1>3. Len(logged) * Pieces = all + Pieces
  <2>1. (q + 1) * Pieces = (q * Pieces) + Pieces
    BY Sizes, Products
  <2> QED
    BY <1>1, <1>2, <2>1
<1>4. serialized \in 0 .. Pieces
  BY DEF TypeOK
<1> DEFINE rest == PiecesOf(Last(logged), serialized + 1, Pieces)
           length == Pieces - serialized
<1>5. length \in Nat /\ Pieces - (serialized + 1) + 1 = length
  BY <1>4, Sizes
<1>6. rest = [k \in 1 .. length |-> <<logged[q + 1], (serialized + 1) + k - 1>>]
  BY <1>1, <1>5 DEF PiecesOf, Last
<1>7. ASSUME NEW k \in 1 .. length
      PROVE  rest[k] \in AllPieces /\ rest[k] = Piece((all + serialized) + (k - 1))
  <2>1. PICK r : r = serialized + (k - 1)
    OBVIOUS
  <2>2. /\ r \in 0 .. Pieces - 1 /\ (serialized + 1) + k - 1 = r + 1
        /\ r + 1 \in 1 .. Pieces /\ (all + serialized) + (k - 1) = all + r
    BY <1>4, <2>1, Sizes
  <2>3. rest[k] = <<logged[q + 1], r + 1>>
    BY <1>6, <2>2
  <2>4. Piece((q * Pieces) + r) = <<logged[q + 1], r + 1>>
    BY <2>2, PieceOf
  <2>5. rest[k] \in AllPieces
    <3>1. logged[q + 1] \in Messages /\ r + 1 \in 1 .. Pieces
      BY <1>1, <2>2
    <3>2. <<logged[q + 1], r + 1>> \in AllPieces
      BY <3>1 DEF AllPieces
    <3> QED
      BY <2>3, <3>2
  <2> QED
    BY <1>2, <2>2, <2>3, <2>4, <2>5
<1> HIDE DEF rest
<1>8. rest \in [1 .. length -> AllPieces]
  BY <1>6, <1>7
<1>9. rest \in Seq(AllPieces) /\ Len(rest) = length
  BY <1>5, <1>8, FunctionIsSequence
<1>10. /\ all + serialized \in Nat /\ all + Pieces \in Nat
       /\ all + Pieces = (all + serialized) + length
  BY <1>4, Sizes
<1>11. IsStretch(rest, all + serialized, all + Pieces)
  BY <1>7, <1>9, <1>10 DEF IsStretch
<1> QED
  BY <1>1, <1>2, <1>3, <1>11 DEF rest

\* The five stretches are the whole stream.
LEMMA AllIsThere == ASSUME IInv PROVE NothingLost
<1> DEFINE sent == RemoveFirst(pipe, Noise)
           unserialized == IF lock = None THEN <<>> ELSE PiecesOf(Last(logged), serialized + 1, Pieces)
<1> SUFFICES ASSUME process = "running", listening
             PROVE  AllOf(consumed) \o partial \o sent \o chunk \o unserialized = AllOf(logged)
  BY DEF NothingLost
<1>1. TypeOK /\ Control /\ Delivered /\ Complete
  BY DEF IInv
<1>2. PICK z \in 1 .. Len(Flow) + 1 : NoiseAt(z) /\ InStream(z)
  BY DEF IInv, InFlight
<1>3. /\ Len(partial) \in Nat /\ Len(pipe) \in Nat /\ Len(chunk) \in Nat /\ Start \in Nat
      /\ Len(Flow) = Len(partial) + Len(pipe) + Len(chunk) /\ z \in Nat
      /\ \A j \in 1 .. Len(partial) : partial[j] = Flow[j]
      /\ \A j \in 1 .. Len(chunk) : chunk[j] = Flow[Len(partial) + Len(pipe) + j]
  BY <1>1, FlowFacts, StartFacts
<1>4. /\ partial \in Seq(AllPieces) /\ chunk \in Seq(AllPieces)
      /\ logged \in Seq(Messages) /\ consumed \in Seq(Messages)
  BY <1>1 DEF TypeOK
<1>5. PICK x \in {0, 1} : x = IF noise THEN 1 ELSE 0
  OBVIOUS
<1>6. IF noise THEN z \in (Len(partial) + 1) .. (Len(partial) + Len(pipe)) ELSE z = Len(Flow) + 1
  BY <1>2 DEF NoiseAt
<1>7. x <= Len(pipe)
  BY <1>3, <1>5, <1>6
<1> DEFINE b == Start + Len(partial)
           c == b + (Len(pipe) - x)
           d == c + Len(chunk)
<1>8. b \in Nat /\ c \in Nat /\ d \in Nat /\ d = Produced
  BY <1>3, <1>5, <1>7 DEF Produced
<1>9. IsStretch(AllOf(consumed), 0, Start)
  BY <1>1, <1>4, AllOfIsStretch DEF Delivered, Start
<1>10. IsStretch(partial, Start, b)
  <2>1. 0 + Len(partial) <= Len(Flow) /\ 0 + Len(partial) < z /\ Start = Start + 0
    BY <1>3, <1>6
  <2>2. \A j \in 1 .. Len(partial) : partial[j] = Flow[0 + j]
    BY <1>3
  <2> QED
    BY <1>1, <1>2, <1>3, <1>4, <2>1, <2>2, PartIsStretch
<1>11. IsStretch(sent, b, c)
  BY <1>1, <1>2, <1>5, SentIsStretch
<1>12. IsStretch(chunk, c, d)
  <2>1. PICK first \in Nat : first = Len(partial) + Len(pipe)
    BY <1>3
  <2>2. /\ first + Len(chunk) <= Len(Flow)
        /\ \/ first + Len(chunk) < z /\ c = Start + first
           \/ z <= first /\ c + 1 = Start + first
    <3>1. CASE noise
      <4>1. x = 1 /\ z \in (Len(partial) + 1) .. (Len(partial) + Len(pipe))
        BY <1>5, <1>6, <3>1
      <4> QED
        BY <1>3, <2>1, <4>1
    <3>2. CASE ~noise
      <4>1. x = 0 /\ z = Len(Flow) + 1
        BY <1>5, <1>6, <3>2
      <4> QED
        BY <1>3, <2>1, <4>1
    <3> QED
      BY <3>1, <3>2
  <2>3. \A j \in 1 .. Len(chunk) : chunk[j] = Flow[first + j]
    BY <1>3, <2>1
  <2> QED
    BY <1>1, <1>2, <1>4, <1>8, <2>2, <2>3, PartIsStretch
<1>13. IsStretch(unserialized, d, Len(logged) * Pieces)
  <2>1. CASE lock = None
    <3>1. d = Len(logged) * Pieces
      BY <1>1, <1>8, <2>1 DEF Complete
    <3>2. <<>> \in Seq(AllPieces) /\ Len(<<>>) = 0
      BY EmptySeq
    <3>3. d = d + 0
      BY <1>8
    <3>4. IsStretch(<<>>, d, d)
      BY <1>8, <3>2, <3>3 DEF IsStretch
    <3> QED
      BY <2>1, <3>1, <3>4
  <2>2. CASE lock # None
    <3>1. logged # <<>> /\ d = ((Len(logged) - 1) * Pieces) + serialized
      BY <1>1, <1>8, <2>2 DEF Complete, Control
    <3> QED
      BY <1>1, <2>2, <3>1, RestIsStretch
  <2> QED
    BY <2>1, <2>2
<1> HIDE DEF b, c, d, sent, unserialized
<1>14. IsStretch(AllOf(consumed) \o partial, 0, b)
  BY <1>9, <1>10, Joined
<1>15. IsStretch(AllOf(consumed) \o partial \o sent, 0, c)
  BY <1>11, <1>14, Joined
<1>16. IsStretch(AllOf(consumed) \o partial \o sent \o chunk, 0, d)
  BY <1>12, <1>15, Joined
<1>17. IsStretch(AllOf(consumed) \o partial \o sent \o chunk \o unserialized, 0, Len(logged) * Pieces)
  BY <1>13, <1>16, Joined
<1>18. IsStretch(AllOf(logged), 0, Len(logged) * Pieces)
  BY <1>1, <1>3, <1>4, AllOfIsStretch, StartFacts
<1> QED
  BY <1>17, <1>18, SameStretch

\* While the client runs and the reader listens, every piece of every logged
\* message is with the receiver, in the parser, in the pipe, in the output buffer of
\* the writer or still to be serialized, in this order, and nothing is there twice.
THEOREM NothingIsLost == Spec => []NothingLost
<1>1. IInv => NothingLost
  BY AllIsThere
<1> QED
  BY <1>1, Invariance, PTL

================================================================================
