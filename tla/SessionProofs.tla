-------------------------- MODULE SessionProofs --------------------------
(***************************************************************************)
(* Proofs about a session, for any number of sentences and any references. *)
(*                                                                         *)
(* Objects is the invariant for a connection that may cut messages.        *)
(* IInv is the one for a connection that delivers whole messages, one or   *)
(* several at a time: it lists where client and server can be together and *)
(* what is on its way then.                                                *)
(***************************************************************************)
EXTENDS Session, SequenceTheorems, Extremes

Opening(stream) == \A i \in DOMAIN stream : stream[i].kind = "new_sentence"

(* Until a first source is read nothing but new_sentence has been sent. *)
Objects ==
  source = -1 =>
    \/ srv = "source"
    \/ /\ srv = "command" /\ toClient = << >>
       /\ \/ cli = "start" /\ toServer = << >>
          \/ cli = "started" /\ Opening(toServer)

Uncut == delivery \in {"message", "merge"}

Idle  == srv = "command" /\ toServer = << >> /\ toClient = << >>
Alone(where, stream)  == srv = where /\ toServer = stream /\ toClient = << >>
Answered(where, stream) == srv = where /\ toServer = << >> /\ toClient = stream

SourceText    == IF sent \in EmptySource THEN << >> ELSE Message("source", <<sent>>)
ReferenceText == IF RefLen[sent] = 0 THEN << >> ELSE Message("reference", <<sent>>)
Wanted        == IF idx = 0 THEN NoPrefix ELSE << sent, idx >>
Answer        == Message("answer", << sent >> \o Wanted)
Request       == Command(IF idx > 0 THEN "prefix" ELSE "no-prefix")

(* The source was read as part of something else, or never sent: both wait *)
(* for good.                                                               *)
Lost == Idle /\ source = 0 /\ (delivery = "merge" \/ sent \in EmptySource)

Opened ==
  \/ cli = "start" /\ Idle
  \/ cli = "started" /\ (Alone("command", Command("new_sentence")) \/ Answered("source", OK))
  \/ cli = "send_source" /\ Alone("source", << >>)
  \/ cli = "ask" /\ Alone("source", SourceText)

Asking ==
  \/ cli = "asked" /\ idx = 0 /\ (Alone("source", SourceText \o Request) \/ Lost)
  \/ /\ cli = "asked" /\ source = sent
     /\ \/ Alone("command", Request)
        \/ idx > 0 /\ Answered("prefix", OK)
        \/ idx = 0 /\ typed = Wanted /\ Answered("answer", OK)
        \/ idx = 0 /\ Answered("command", OK \o Answer)
  \/ cli = "send_prefix" /\ source = sent /\ idx > 0 /\ Alone("prefix", << >>)
  \/ /\ cli = "await_answer" /\ source = sent
     /\ \/ idx > 0 /\ Alone("prefix", Message("typed", << sent, idx >>))
        \/ typed = Wanted /\ Alone("answer", << >>)
        \/ Answered("command", Answer)
  \/ cli = "compare" /\ source = sent /\ Idle

Updating ==
  \/ cli = "updated" /\ (Alone("source", SourceText \o Command("update")) \/ Lost)
  \/ /\ cli = "updated" /\ source = sent
     /\ Alone("command", Command("update")) \/ Answered("reference", OK)
  \/ cli = "send_reference" /\ source = sent /\ Alone("reference", << >>)
  \/ cli = "await_learnt" /\ source = sent /\ Alone("reference", ReferenceText)

Updated ==
  \/ cli = "await_learnt" /\ (Alone("learnt", << >>) \/ Answered("command", OK))
  \/ cli = "next" /\ Idle
  \/ cli = "done" /\ sent = N /\ (Alone("command", Command("close")) \/ Alone("ended", << >>))

Phase ==
  \/ Opened /\ idx = 0
  \/ cli = "ask" /\ source = sent /\ Idle
  \/ Asking /\ idx < RefLen[sent]
  \/ (Updating \/ Updated) /\ idx >= RefLen[sent]

(* The answer at hand, if there is one: always of this sentence. *)
Offered ==
  \/ res = << >>
  \/ idx > 0 /\ cli # "compare" /\ \E x \in Nat \X Nat : res = Message("answer", << sent >> \o x)
  \/ res = Answer

Past == cli \in {"next", "done"} \/ (cli = "await_learnt" /\ srv # "reference")

LearntSoFar ==
  Learning =>
    /\ Len(weights) = IF Past THEN sent ELSE sent - 1
    /\ \A s \in DOMAIN weights : weights[s] = << s, s >>
    /\ source > 0 => Len(decodedBy) = source - 1

IInv == TypeOK /\ (Uncut => Phase /\ Offered /\ LearntSoFar)

-------------------------------------------------------------------------
LEMMA MinOfOne == ASSUME NEW x \in Nat PROVE Min({x}) = x
BY MinIn

LEMMA MinOfTwo ==
  ASSUME NEW x \in Nat, NEW y \in Nat
  PROVE  Min({x, y}) \in Nat /\ Min({x, y}) <= x /\ (x <= y => Min({x, y}) = x)
         /\ (x >= 1 /\ y >= 1 => Min({x, y}) >= 1)
<1>1. PICK z \in {x, y} : \A t \in {x, y} : z <= t
  OBVIOUS
<1>2. Min({x, y}) \in {x, y} /\ \A t \in {x, y} : Min({x, y}) <= t
  BY <1>1 DEF Min
<1>3. QED
  BY <1>2

(* A read returns at least a piece, and never more than has arrived. *)
LEMMA ReadsSome ==
  ASSUME delivery \in Deliveries, NEW s \in Seq(Pieces), s # << >>, NEW n \in ReadSizes(s)
  PROVE  n \in 1 .. Len(s)
<1>1. Len(s) \in Nat \ {0} /\ DOMAIN s = 1 .. Len(s)
  BY EmptySeq
<1>2. Len(s) \in Ends(s) /\ Ends(s) \subseteq 1 .. Len(s)
  BY <1>1 DEF Ends
<1>3. Min(Ends(s)) \in 1 .. Len(s)
  BY <1>1, <1>2, MinIn
<1>4. PICK m \in 1 .. Len(s) : n = Min({m, MaxRead})
  BY <1>1, <1>2, <1>3, SessionAssumption DEF ReadSizes
<1>5. m \in Nat /\ m >= 1 /\ MaxRead \in Nat /\ MaxRead >= 1
  BY <1>1, <1>4, SessionAssumption
<1>6. QED
  BY <1>1, <1>4, <1>5, MinOfTwo

(* What is read, and what is left, are made of what had arrived. *)
LEMMA ReadParts ==
  ASSUME NEW s \in Seq(Pieces), NEW n \in 1 .. Len(s)
  PROVE  LET text == SubSeq(s, 1, n)
             rest == SubSeq(s, n + 1, Len(s))
         IN  /\ text \in Seq(Pieces) /\ Len(text) = n
             /\ \A i \in 1 .. n : text[i] = s[i]
             /\ rest \in Seq(Pieces)
             /\ \A i \in DOMAIN rest : \E j \in DOMAIN s : rest[i] = s[j]
<1>1. Len(s) \in Nat /\ \A i \in 1 .. Len(s) : s[i] \in Pieces
  BY ElementOfSeq, LenProperties
<1>2. /\ SubSeq(s, 1, n) \in Seq(Pieces) /\ Len(SubSeq(s, 1, n)) = n
      /\ \A i \in 1 .. n : SubSeq(s, 1, n)[i] = s[i]
  <2>1. \A i \in 1 .. n : s[i] \in Pieces
    BY <1>1
  <2>2. /\ SubSeq(s, 1, n) \in Seq(Pieces)
        /\ Len(SubSeq(s, 1, n)) = (IF 1 <= n THEN n - 1 + 1 ELSE 0)
        /\ \A i \in 1 .. n - 1 + 1 : SubSeq(s, 1, n)[i] = s[1 + i - 1]
    BY <1>1, <2>1, SubSeqProperties
  <2>3. QED
    BY <1>1, <2>2
<1>3. /\ SubSeq(s, n + 1, Len(s)) \in Seq(Pieces)
      /\ Len(SubSeq(s, n + 1, Len(s))) = Len(s) - n
      /\ \A i \in 1 .. Len(s) - n : SubSeq(s, n + 1, Len(s))[i] = s[n + i]
  <2>1. \A i \in n + 1 .. Len(s) : s[i] \in Pieces
    BY <1>1
  <2>2. /\ SubSeq(s, n + 1, Len(s)) \in Seq(Pieces)
        /\ Len(SubSeq(s, n + 1, Len(s))) =
             (IF n + 1 <= Len(s) THEN Len(s) - (n + 1) + 1 ELSE 0)
        /\ \A i \in 1 .. Len(s) - (n + 1) + 1 :
             SubSeq(s, n + 1, Len(s))[i] = s[(n + 1) + i - 1]
    BY <1>1, <2>1, SubSeqProperties
  <2>3. QED
    BY <1>1, <2>2
<1>4. DOMAIN SubSeq(s, n + 1, Len(s)) = 1 .. Len(s) - n /\ DOMAIN s = 1 .. Len(s)
  BY <1>3, LenProperties
<1>5. \A i \in 1 .. Len(s) - n : n + i \in DOMAIN s
  BY <1>1, <1>4
<1>6. QED
  BY <1>2, <1>3, <1>4, <1>5

-------------------------------------------------------------------------
LEMMA OneIn == ASSUME NEW S, NEW x \in S PROVE << x >> \in Seq(S)
<1>1. << x >> = [i \in 1 .. 1 |-> x]
  OBVIOUS
<1>2. [i \in 1 .. 1 |-> x] \in Seq(S)
  BY IsASeq
<1>3. QED
  BY <1>1, <1>2

LEMMA TwoIn == ASSUME NEW S, NEW x \in S, NEW y \in S PROVE << x, y >> \in Seq(S)
<1>1. << x, y >> = [i \in 1 .. 2 |-> IF i = 1 THEN x ELSE y]
  OBVIOUS
<1>2. [i \in 1 .. 2 |-> IF i = 1 THEN x ELSE y] \in Seq(S)
  BY IsASeq
<1>3. QED
  BY <1>1, <1>2

(* A message is a sequence of one or two pieces of its kind. *)
LEMMA MessagePieces ==
  ASSUME NEW kind \in Kinds, NEW about \in Seq(Int)
  PROVE  /\ Message(kind, about) \in Seq(Pieces)
         /\ Len(Message(kind, about)) \in {1, 2}
         /\ DOMAIN Message(kind, about) = 1 .. Len(Message(kind, about))
         /\ Message(kind, about) # << >>
         /\ \A i \in 1 .. Len(Message(kind, about)) :
              /\ Message(kind, about)[i].kind = kind
              /\ Message(kind, about)[i].about = about
              /\ Message(kind, about)[i].part = i
<1> DEFINE l == IF kind \in Long THEN 2 ELSE 1
           msg == [part \in 1 .. l |-> [kind |-> kind, about |-> about, part |-> part]]
<1>1. l \in {1, 2} /\ Message(kind, about) = msg
  BY DEF Message
<1> HIDE DEF l
<1>2. \A i \in 1 .. l : [kind |-> kind, about |-> about, part |-> i] \in Pieces
  BY <1>1 DEF Pieces
<1>3. msg \in Seq(Pieces)
  BY <1>1, <1>2, IsASeq
<1>4. DOMAIN msg = 1 .. l /\ Len(msg) = l
  BY <1>1, <1>3, LenProperties
<1>5. msg # << >>
  BY <1>1, <1>3, <1>4, EmptySeq
<1>6. QED
  BY <1>1, <1>3, <1>4, <1>5

LEMMA AboutIs ==
  ASSUME NEW kind \in Kinds, NEW about \in Seq(Int)
  PROVE  Message(kind, about)[1].about = about
<1>1. \A i \in 1 .. Len(Message(kind, about)) : Message(kind, about)[i].about = about
  BY MessagePieces
<1>2. Len(Message(kind, about)) \in {1, 2}
  BY MessagePieces
<1>3. QED
  BY <1>1, <1>2

LEMMA CommandPieces ==
  ASSUME NEW kind \in Kinds
  PROVE  /\ Command(kind) \in Seq(Pieces) /\ Command(kind) # << >>
         /\ Len(Command(kind)) \in {1, 2} /\ DOMAIN Command(kind) = 1 .. Len(Command(kind))
         /\ \A i \in 1 .. Len(Command(kind)) : Command(kind)[i].kind = kind
<1>1. PICK none \in Seq(Int) : none = << >>
  BY EmptySeq
<1>2. Command(kind) = Message(kind, none)
  BY <1>1 DEF Command
<1>3. /\ Message(kind, none) \in Seq(Pieces)
      /\ Len(Message(kind, none)) \in {1, 2}
      /\ DOMAIN Message(kind, none) = 1 .. Len(Message(kind, none))
      /\ Message(kind, none) # << >>
      /\ \A i \in 1 .. Len(Message(kind, none)) : Message(kind, none)[i].kind = kind
  <2>1. \A i \in 1 .. Len(Message(kind, none)) : Message(kind, none)[i].kind = kind
    BY MessagePieces
  <2>2. QED
    BY <2>1, MessagePieces
<1>4. QED
  BY <1>2, <1>3

(* Messages of different kinds, or about different things, differ. *)
LEMMA MessagesDiffer ==
  ASSUME NEW k \in Kinds, NEW a \in Seq(Int), NEW l \in Kinds, NEW b \in Seq(Int),
         Message(k, a) = Message(l, b)
  PROVE  k = l /\ a = b
BY MessagePieces

LEMMA CommandsDiffer ==
  ASSUME NEW k \in Kinds, NEW l \in Kinds, Command(k) = Command(l)
  PROVE  k = l
BY CommandPieces

-------------------------------------------------------------------------
LEMMA ServerGets ==
  ASSUME TypeOK, NEW text, ServerReads(text)
  PROVE  /\ text \in Seq(Pieces) /\ toServer' \in Seq(Pieces)
         /\ \A i \in DOMAIN toServer' : \E j \in DOMAIN toServer : toServer'[i] = toServer[j]
         /\ \/ /\ toServer # << >> /\ 1 \in DOMAIN text /\ 1 \in DOMAIN toServer
               /\ text[1] = toServer[1]
            \/ toServer = << >> /\ text = << >> /\ cli = "done"
<1>0. toServer \in Seq(Pieces) /\ delivery \in Deliveries
  BY DEF TypeOK
<1>1. CASE toServer = << >>
  BY <1>0, <1>1 DEF ServerReads
<1>2. CASE toServer # << >>
  <2>1. PICK n \in ReadSizes(toServer) :
          /\ text = SubSeq(toServer, 1, n)
          /\ toServer' = SubSeq(toServer, n + 1, Len(toServer))
    BY <1>2 DEF ServerReads
  <2>2. n \in 1 .. Len(toServer)
    BY <1>0, <1>2, ReadsSome
  <2>3. /\ text \in Seq(Pieces) /\ Len(text) = n
        /\ \A i \in 1 .. n : text[i] = toServer[i]
        /\ toServer' \in Seq(Pieces)
        /\ \A i \in DOMAIN toServer' : \E j \in DOMAIN toServer : toServer'[i] = toServer[j]
    BY <1>0, <2>1, <2>2, ReadParts
  <2>4. 1 \in DOMAIN text /\ 1 \in DOMAIN toServer /\ text[1] = toServer[1]
    BY <1>0, <2>2, <2>3, LenProperties
  <2>5. QED
    BY <1>2, <2>3, <2>4, Zenon
<1>3. QED
  BY <1>1, <1>2

LEMMA ClientGets ==
  ASSUME TypeOK, NEW text, ClientReads(text)
  PROVE  /\ text \in Seq(Pieces) /\ toClient' \in Seq(Pieces)
         /\ toClient # << >> \/ srv = "ended"
<1>0. toClient \in Seq(Pieces) /\ delivery \in Deliveries
  BY DEF TypeOK
<1>1. CASE toClient = << >>
  BY <1>0, <1>1 DEF ClientReads
<1>2. CASE toClient # << >>
  <2>1. PICK n \in ReadSizes(toClient) :
          /\ text = SubSeq(toClient, 1, n)
          /\ toClient' = SubSeq(toClient, n + 1, Len(toClient))
    BY <1>2 DEF ClientReads
  <2>2. n \in 1 .. Len(toClient)
    BY <1>0, <1>2, ReadsSome
  <2>3. QED
    BY <1>0, <1>2, <2>1, <2>2, ReadParts
<1>3. QED
  BY <1>1, <1>2

(* What a received text is taken for. *)
LEMMA SourceOf ==
  ASSUME NEW text
  PROVE  /\ Source(text) \in 0 .. N
         /\ \A s \in 1 .. N : text = Message("source", << s >>) => Source(text) = s
         /\ (\A s \in 1 .. N : text # Message("source", << s >>)) => Source(text) = 0
<1>1. ASSUME NEW s \in 1 .. N, text = Message("source", << s >>) PROVE text[1].about[1] = s
  <2> DEFINE about == << s >>
  <2>1. s \in Int
    BY SessionAssumption
  <2>2. about \in Seq(Int)
    BY <2>1, OneIn, Zenon
  <2>3. about[1] = s
    OBVIOUS
  <2> HIDE DEF about
  <2>4. Message("source", about)[1].about = about
    BY <2>2, AboutIs DEF Kinds
  <2>5. QED
    BY <1>1, <2>3, <2>4 DEF about
<1>2. N \in Nat
  BY SessionAssumption
<1>3. CASE \E s \in 1 .. N : text = Message("source", << s >>)
  <2>1. Source(text) = text[1].about[1]
    BY <1>3 DEF Source
  <2>2. QED
    BY <1>1, <1>2, <1>3, <2>1
<1>4. CASE ~ \E s \in 1 .. N : text = Message("source", << s >>)
  BY <1>2, <1>4 DEF Source
<1>5. QED
  BY <1>3, <1>4

LEMMA ReferenceOf ==
  ASSUME NEW text
  PROVE  /\ Reference(text) \in 0 .. N
         /\ \A s \in 1 .. N : text = Message("reference", << s >>) => Reference(text) = s
<1>1. ASSUME NEW s \in 1 .. N, text = Message("reference", << s >>) PROVE text[1].about[1] = s
  <2> DEFINE about == << s >>
  <2>1. s \in Int
    BY SessionAssumption
  <2>2. about \in Seq(Int)
    BY <2>1, OneIn, Zenon
  <2>3. about[1] = s
    OBVIOUS
  <2> HIDE DEF about
  <2>4. Message("reference", about)[1].about = about
    BY <2>2, AboutIs DEF Kinds
  <2>5. QED
    BY <1>1, <2>3, <2>4 DEF about
<1>2. N \in Nat
  BY SessionAssumption
<1>3. CASE \E s \in 1 .. N : text = Message("reference", << s >>)
  <2>1. Reference(text) = text[1].about[1]
    BY <1>3 DEF Reference
  <2>2. QED
    BY <1>1, <1>2, <1>3, <2>1
<1>4. CASE ~ \E s \in 1 .. N : text = Message("reference", << s >>)
  BY <1>2, <1>4 DEF Reference
<1>5. QED
  BY <1>3, <1>4

LEMMA TypedOf ==
  ASSUME NEW text
  PROVE  /\ Typed(text) \in Nat \X Nat
         /\ \A s \in 1 .. N : \A x \in 1 .. RefLen[s] :
              text = Message("typed", << s, x >>) => Typed(text) = << s, x >>
<1>1. ASSUME NEW s \in 1 .. N, NEW x \in 1 .. RefLen[s], text = Message("typed", << s, x >>)
      PROVE  text[1].about = << s, x >> /\ << s, x >> \in Nat \X Nat
  <2> DEFINE about == << s, x >>
  <2>1. s \in Nat /\ x \in Nat /\ s \in Int /\ x \in Int
    <3>1. RefLen[s] \in Nat /\ N \in Nat
      BY SessionAssumption
    <3>2. QED
      BY <3>1
  <2>2. about \in Seq(Int)
    BY <2>1, TwoIn, Zenon
  <2>3. about \in Nat \X Nat
    BY <2>1
  <2> HIDE DEF about
  <2>4. Message("typed", about)[1].about = about
    BY <2>2, AboutIs DEF Kinds
  <2>5. QED
    BY <1>1, <2>3, <2>4 DEF about
<1>2. Garbled \in Nat \X Nat
  BY DEF Garbled
<1>3. CASE \E s \in 1 .. N : \E x \in 1 .. RefLen[s] : text = Message("typed", << s, x >>)
  <2>1. Typed(text) = text[1].about
    BY <1>3 DEF Typed
  <2>2. QED
    BY <1>1, <1>3, <2>1
<1>4. CASE ~ \E s \in 1 .. N : \E x \in 1 .. RefLen[s] : text = Message("typed", << s, x >>)
  BY <1>2, <1>4 DEF Typed
<1>5. QED
  BY <1>3, <1>4

-------------------------------------------------------------------------
(* The types of the variables. *)
LEMMA Appended ==
  ASSUME NEW s \in Seq(Pieces), NEW msg \in Seq(Pieces)
  PROVE  s \o msg \in Seq(Pieces)
BY ConcatProperties

LEMMA Sendable ==
  /\ << >> \in Seq(Pieces) /\ << >> \in Seq(Int)
  /\ \A k \in Kinds : Command(k) \in Seq(Pieces)
  /\ \A k \in Kinds : \A x \in Int : Message(k, << x >>) \in Seq(Pieces)
  /\ \A k \in Kinds : \A x, y \in Int : Message(k, << x, y >>) \in Seq(Pieces)
  /\ \A k \in Kinds : \A x \in Int : \A y \in Nat \X Nat :
       Message(k, << x >> \o y) \in Seq(Pieces) /\ << x >> \o y \in Seq(Int)
<1>1. \A x \in Int : << x >> \in Seq(Int)
  BY OneIn, Zenon
<1>2. \A x, y \in Int : << x, y >> \in Seq(Int)
  BY TwoIn, Zenon
<1>3. \A y \in Nat \X Nat : y \in Seq(Int)
  <2> TAKE y \in Nat \X Nat
  <2>1. PICK a \in Int, b \in Int : y = << a, b >>
    OBVIOUS
  <2>2. QED
    BY <1>2, <2>1
<1>4. \A k \in Kinds : \A a \in Seq(Int) : Message(k, a) \in Seq(Pieces)
  BY MessagePieces
<1>5. \A x \in Int : \A y \in Nat \X Nat : << x >> \o y \in Seq(Int)
  <2> TAKE x \in Int
  <2> TAKE y \in Nat \X Nat
  <2> DEFINE one == << x >>
  <2>1. one \in Seq(Int) /\ y \in Seq(Int)
    BY <1>1, <1>3
  <2> HIDE DEF one
  <2>2. one \o y \in Seq(Int)
    BY <2>1, ConcatProperties
  <2>3. QED
    BY <2>2 DEF one
<1>6. \A k \in Kinds : Command(k) \in Seq(Pieces)
  BY CommandPieces
<1>7. << >> \in Seq(Pieces) /\ << >> \in Seq(Int)
  BY EmptySeq
<1>8. /\ \A k \in Kinds : \A x \in Int : Message(k, << x >>) \in Seq(Pieces)
      /\ \A k \in Kinds : \A x, y \in Int : Message(k, << x, y >>) \in Seq(Pieces)
      /\ \A k \in Kinds : \A x \in Int : \A y \in Nat \X Nat :
           Message(k, << x >> \o y) \in Seq(Pieces)
  BY <1>1, <1>2, <1>4, <1>5, Zenon
<1>9. QED
  BY <1>5, <1>6, <1>7, <1>8, Zenon

LEMMA InitTyped == Init => TypeOK
<1> SUFFICES ASSUME Init PROVE TypeOK
  OBVIOUS
<1>1. << >> \in Seq(Pieces) /\ << >> \in Seq((-1 .. N) \X (0 .. N))
  BY EmptySeq
<1>2. 1 \in 1 .. N /\ RefLen[1] \in Nat
  BY SessionAssumption
<1>3. QED
  BY <1>1, <1>2, SessionAssumption DEF Init, TypeOK, NoPrefix

LEMMA ClientTyped == ASSUME TypeOK, Client PROVE TypeOK'
<1> USE DEF TypeOK, serverVars
<1>0. sent \in Int /\ RefLen[sent] \in Nat /\ idx \in Int
  BY SessionAssumption
<1>1. CASE NewSentence
  BY <1>1, Sendable, Appended DEF NewSentence, ClientWrites, Kinds
<1>2. CASE StartedOK
  BY <1>2, ClientGets DEF StartedOK
<1>3. CASE SendSource
  BY <1>0, <1>3, Sendable, Appended DEF SendSource, ClientWrites, Kinds
<1>4. CASE Ask
  BY <1>0, <1>4, Sendable, Appended DEF Ask, ClientWrites, Kinds
<1>5. CASE AskedOK
  BY <1>5, ClientGets DEF AskedOK
<1>6. CASE SendPrefix
  BY <1>0, <1>6, Sendable, Appended DEF SendPrefix, ClientWrites, Kinds
<1>7. CASE GetAnswer
  BY <1>7, ClientGets DEF GetAnswer
<1>8. CASE Compare
  BY <1>0, <1>8 DEF Compare
<1>9. CASE SendUpdate
  BY <1>9, Sendable, Appended DEF SendUpdate, ClientWrites, Kinds
<1>10. CASE UpdatedOK
  BY <1>10, ClientGets DEF UpdatedOK
<1>11. CASE SendReference
  BY <1>0, <1>11, Sendable, Appended DEF SendReference, ClientWrites, Kinds
<1>12. CASE LearntOK
  BY <1>12, ClientGets DEF LearntOK
<1>13. CASE NextSentence
  <2>1. CASE sent < N
    <3>1. sent + 1 \in 1 .. N /\ RefLen[sent + 1] \in Nat
      BY <1>0, <2>1, SessionAssumption
    <3>2. QED
      BY <1>13, <2>1, <3>1, Sendable DEF NextSentence
  <2>2. CASE ~ (sent < N)
    BY <1>13, <2>2, Sendable, Appended DEF NextSentence, ClientWrites, Kinds
  <2>3. QED
    BY <2>1, <2>2
<1>14. QED
  BY <1>1, <1>2, <1>3, <1>4, <1>5, <1>6, <1>7, <1>8, <1>9, <1>10, <1>11, <1>12, <1>13
     DEF Client

LEMMA ServerTyped == ASSUME TypeOK, Server PROVE TypeOK'
<1> USE DEF TypeOK, clientVars
<1>1. CASE GetCommand
  <2>1. PICK text : ServerReads(text)
    BY <1>1 DEF GetCommand
  <2>2. toServer' \in Seq(Pieces)
    BY <2>1, ServerGets
  <2>3. Command("ok") \in Seq(Pieces) /\ NoPrefix \in Nat \X Nat
    BY Sendable DEF Kinds, NoPrefix
  <2>4. toClient \o OK \in Seq(Pieces)
    BY <2>3, Appended DEF OK
  <2>5. \A k \in DOMAIN Replies : Replies[k] \in {"source", "prefix", "answer", "reference"}
    BY DEF Replies
  <2>6. QED
    BY <1>1, <2>2, <2>3, <2>4, <2>5 DEF GetCommand, ServerWrites
<1>2. CASE GetSource
  <2>1. PICK text : ServerReads(text) /\ source' = Source(text)
    BY <1>2 DEF GetSource
  <2>2. toServer' \in Seq(Pieces) /\ source' \in 0 .. N
    BY <2>1, ServerGets, SourceOf
  <2>3. QED
    BY <1>2, <2>2 DEF GetSource
<1>3. CASE GetPrefix
  <2>1. PICK text : ServerReads(text) /\ typed' = Typed(text)
    BY <1>3 DEF GetPrefix
  <2>2. toServer' \in Seq(Pieces) /\ typed' \in Nat \X Nat
    BY <2>1, ServerGets, TypedOf
  <2>3. QED
    BY <1>3, <2>2 DEF GetPrefix
<1>4. CASE SendAnswer
  <2>1. source \in Int /\ typed \in Nat \X Nat
    BY SessionAssumption
  <2>2. Message("answer", << source >> \o typed) \in Seq(Pieces)
    BY <2>1, Sendable DEF Kinds
  <2>3. QED
    BY <1>4, <2>2, Appended DEF SendAnswer, ServerWrites
<1>5. CASE GetReference
  <2>1. PICK text : /\ ServerReads(text)
                    /\ weights' = IF Learning
                                    THEN Append(weights, << source, Reference(text) >>)
                                    ELSE weights
    BY <1>5 DEF GetReference
  <2>2. toServer' \in Seq(Pieces) /\ Reference(text) \in 0 .. N
    BY <2>1, ServerGets, ReferenceOf
  <2>3. weights' \in Seq((-1 .. N) \X (0 .. N))
    BY <2>1, <2>2, AppendProperties
  <2>4. QED
    BY <1>5, <2>2, <2>3 DEF GetReference
<1>6. CASE SendLearnt
  BY <1>6, Sendable, Appended DEF SendLearnt, ServerWrites, OK, Kinds
<1>7. QED
  BY <1>1, <1>2, <1>3, <1>4, <1>5, <1>6 DEF Server

LEMMA StepTyped == TypeOK /\ [Next]_vars => TypeOK'
<1>1. ASSUME TypeOK, UNCHANGED vars PROVE TypeOK'
  BY <1>1 DEF TypeOK, vars
<1>2. QED
  BY <1>1, ClientTyped, ServerTyped DEF Next, Finished

(* Whatever the network does, each variable keeps to its values. *)
THEOREM TypeCorrect == Spec => []TypeOK
BY InitTyped, StepTyped, PTL DEF Spec

-------------------------------------------------------------------------
(* The server uses no object it has not made.                              *)
LEMMA OpeningWritten ==
  ASSUME NEW s \in Seq(Pieces), s = << >>
  PROVE  Opening(s \o Command("new_sentence"))
<1>1. Command("new_sentence") \in Seq(Pieces)
  BY CommandPieces DEF Kinds
<1>2. s \o Command("new_sentence") = Command("new_sentence")
  BY <1>1, ConcatEmptySeq
<1>3. QED
  BY <1>2, CommandPieces DEF Opening, Kinds

LEMMA ClientObjects ==
  ASSUME TypeOK, Objects, Client
  PROVE  Objects'
<1>1. SUFFICES ASSUME source = -1, srv # "source" PROVE Objects'
  BY DEF Objects, Client, serverVars, NewSentence, StartedOK, SendSource, Ask, AskedOK,
         SendPrefix, GetAnswer, Compare, SendUpdate, UpdatedOK, SendReference, LearntOK,
         NextSentence
<1>2. /\ srv = "command" /\ toClient = << >> /\ toServer \in Seq(Pieces)
      /\ \/ cli = "start" /\ toServer = << >>
         \/ cli = "started" /\ Opening(toServer)
  BY <1>1 DEF Objects, TypeOK
<1>3. CASE NewSentence
  BY <1>2, <1>3, OpeningWritten DEF NewSentence, ClientWrites, Objects, serverVars
<1>4. ~ StartedOK
  BY <1>2, ClientGets DEF StartedOK
<1>5. QED
  BY <1>2, <1>3, <1>4
     DEF Client, SendSource, Ask, AskedOK, SendPrefix, GetAnswer, Compare, SendUpdate,
         UpdatedOK, SendReference, LearntOK, NextSentence

LEMMA ServerObjects ==
  ASSUME TypeOK, Objects, Server
  PROVE  Objects'
<1>1. SUFFICES ASSUME source' = -1 PROVE Objects'
  BY DEF Objects
<1>2. ~ GetSource
  <2>1. \A text : Source(text) # -1
    BY SourceOf, SessionAssumption
  <2>2. QED
    BY <1>1, <2>1 DEF GetSource
<1>3. GetCommand /\ srv = "command"
  BY <1>1, <1>2
     DEF Server, Objects, GetCommand, GetPrefix, SendAnswer, GetReference, SendLearnt
<1>4. /\ toClient = << >> /\ toServer \in Seq(Pieces)
      /\ \/ cli = "start" /\ toServer = << >>
         \/ cli = "started" /\ Opening(toServer)
  BY <1>1, <1>3 DEF Objects, TypeOK, GetCommand
<1>5. PICK text :
        /\ ServerReads(text)
        /\ \/ \E k \in DOMAIN Replies :
                /\ text = Command(k)
                /\ srv' = Replies[k]
           \/ text = Command("close")
           \/ UNCHANGED << srv, toClient >>
  BY <1>3 DEF GetCommand
<1>6. /\ cli = "started" /\ Opening(toServer) /\ toServer' \in Seq(Pieces)
      /\ \A i \in DOMAIN toServer' : \E j \in DOMAIN toServer : toServer'[i] = toServer[j]
      /\ 1 \in DOMAIN text /\ text[1].kind = "new_sentence"
  BY <1>4, <1>5, ServerGets DEF Opening
<1>7. \A k \in Kinds : text = Command(k) => k = "new_sentence"
  BY <1>6, CommandPieces
<1>8. Opening(toServer')
  BY <1>6 DEF Opening
<1>9. CASE UNCHANGED << srv, toClient >>
  BY <1>3, <1>4, <1>6, <1>8, <1>9 DEF Objects, GetCommand, clientVars, Opening
<1>10. CASE \E k \in DOMAIN Replies : text = Command(k) /\ srv' = Replies[k]
  BY <1>7, <1>10 DEF Objects, Replies, Kinds
<1>11. CASE text = Command("close")
  BY <1>7, <1>11 DEF Kinds
<1>12. QED
  BY <1>5, <1>9, <1>10, <1>11

(* However the network cuts and merges the messages, the server answers a  *)
(* prefix or learns from a reference only when it has read a source and    *)
(* made its manager and its graph (they are NULL before: CAT-Server.cpp).  *)
THEOREM NeverWithoutObjects == Spec => []ObjectsExist
<1>1. Init => Objects
  BY DEF Init, Objects
<1>2. TypeOK /\ Objects /\ [Next]_vars => Objects'
  <2>1. ASSUME Objects, UNCHANGED vars PROVE Objects'
    BY <2>1 DEF Objects, vars, Opening
  <2>2. QED
    BY <2>1, ClientObjects, ServerObjects DEF Next, Finished
<1>3. Objects => ObjectsExist
  BY DEF Objects, ObjectsExist
<1>4. QED
  BY <1>1, <1>2, <1>3, TypeCorrect, PTL DEF Spec

-------------------------------------------------------------------------
(* Reads that return whole messages.                                       *)
Whole(m) ==
  /\ m \in Seq(Pieces) /\ m # << >> /\ Len(m) \in {1, 2}
  /\ \A i \in 1 .. Len(m) : m[i].part = i

LEMMA MessageWhole ==
  ASSUME NEW k \in Kinds, NEW a \in Seq(Int)
  PROVE  Whole(Message(k, a))
<1>1. \A i \in 1 .. Len(Message(k, a)) : Message(k, a)[i].part = i
  BY MessagePieces
<1>2. QED
  BY <1>1, MessagePieces DEF Whole

LEMMA CommandWhole == ASSUME NEW k \in Kinds PROVE Whole(Command(k))
<1>1. PICK none \in Seq(Int) : none = << >>
  BY EmptySeq
<1>2. Command(k) = Message(k, none)
  BY <1>1 DEF Command
<1>3. QED
  BY <1>2, MessageWhole

LEMMA ReadOne ==
  ASSUME Uncut, MaxRead >= 4, NEW s, Whole(s), NEW n \in ReadSizes(s)
  PROVE  n = Len(s)
<1>1. /\ s \in Seq(Pieces) /\ DOMAIN s = 1 .. Len(s)
      /\ Len(s) \in Nat /\ 1 <= Len(s) /\ Len(s) <= 2
  BY LenProperties DEF Whole
<1>2. Ends(s) = {Len(s)}
  <2>1. ASSUME NEW m \in Ends(s), ~ (m = Len(s)) PROVE FALSE
    <3> DEFINE l == Len(s)
    <3>1. m \in 1 .. Len(s) /\ s[m + 1].part = 1
      BY <1>1, <2>1 DEF Ends
    <3>2. m \in Int /\ 1 <= m /\ m <= Len(s)
      BY <1>1, <3>1
    <3>3. m # l
      BY <2>1
    <3>4. l \in Int /\ m <= l
      BY <1>1, <3>2
    <3> HIDE DEF l
    <3>5. m + 1 \in 1 .. l /\ m + 1 # 1
      BY <3>2, <3>3, <3>4
    <3>6. QED
      BY <3>1, <3>5 DEF Whole, l
  <2>2. Len(s) \in Ends(s)
    BY <1>1 DEF Ends
  <2>3. QED
    BY <2>1, <2>2
<1>3. Len(s) \in Nat
  BY <1>1
<1>4. Min(Ends(s)) = Len(s)
  BY <1>2, <1>3, MinOfOne
<1>5. n = Min({Len(s), MaxRead})
  BY <1>2, <1>4 DEF ReadSizes, Uncut
<1>6. MaxRead \in Nat /\ Len(s) <= MaxRead
  BY <1>1, SessionAssumption
<1>7. QED
  BY <1>3, <1>5, <1>6, MinOfTwo

LEMMA ReadTwo ==
  ASSUME Uncut, MaxRead >= 4, NEW s, NEW t, Whole(s), Whole(t), NEW n \in ReadSizes(s \o t)
  PROVE  n = Len(s) \/ (n = Len(s \o t) /\ delivery = "merge")
<1> DEFINE st == s \o t
<1>1. /\ s \in Seq(Pieces) /\ Len(s) \in Nat /\ 1 <= Len(s) /\ Len(s) <= 2
      /\ t \in Seq(Pieces) /\ Len(t) \in Nat /\ 1 <= Len(t) /\ Len(t) <= 2
  BY LenProperties DEF Whole
<1>2. /\ st \in Seq(Pieces) /\ Len(st) = Len(s) + Len(t)
      /\ \A i \in 1 .. Len(s) + Len(t) :
           st[i] = IF i <= Len(s) THEN s[i] ELSE t[i - Len(s)]
  BY <1>1, ConcatProperties
<1>3. DOMAIN st = 1 .. Len(s) + Len(t)
  BY <1>2, LenProperties
<1> HIDE DEF st
<1>4. Ends(st) = {Len(s), Len(st)}
  <2>1. ASSUME NEW m \in Ends(st), m # Len(s), m # Len(st) PROVE FALSE
    <3>1. m \in 1 .. Len(st) /\ st[m + 1].part = 1
      BY <1>2, <1>3, <2>1 DEF Ends
    <3>2. CASE m < Len(s)
      <4>1. m + 1 \in 1 .. Len(s) /\ m + 1 # 1 /\ st[m + 1] = s[m + 1]
        BY <1>1, <1>2, <3>1, <3>2
      <4>2. QED
        BY <3>1, <4>1 DEF Whole
    <3>3. CASE m > Len(s)
      <4>1. m + 1 - Len(s) \in 1 .. Len(t) /\ m + 1 - Len(s) # 1
            /\ st[m + 1] = t[m + 1 - Len(s)]
        BY <1>1, <1>2, <2>1, <3>1, <3>3
      <4>2. QED
        BY <3>1, <4>1 DEF Whole
    <3>4. QED
      BY <1>1, <2>1, <3>1, <3>2, <3>3
  <2>2. Len(st) \in Ends(st)
    BY <1>1, <1>2, <1>3 DEF Ends
  <2>3. Len(s) \in Ends(st)
    <3>1. Len(s) + 1 \in 1 .. Len(s) + Len(t) /\ st[Len(s) + 1] = t[1] /\ t[1].part = 1
      <4>1. Len(s) + 1 \in 1 .. Len(s) + Len(t) /\ 1 \in 1 .. Len(t)
        BY <1>1
      <4>2. st[Len(s) + 1] = t[Len(s) + 1 - Len(s)]
        BY <1>1, <1>2, <4>1
      <4>3. QED
        BY <1>1, <4>1, <4>2 DEF Whole
    <3>2. Len(s) \in DOMAIN st
      BY <1>1, <1>3
    <3>3. QED
      BY <3>1, <3>2 DEF Ends
  <2>4. QED
    BY <2>1, <2>2, <2>3
<1>5. Len(s) \in Nat /\ Len(st) \in Nat /\ Len(s) <= Len(st) /\ Len(st) <= 4
  BY <1>1, <1>2
<1>6. Min(Ends(st)) = Len(s)
  BY <1>4, <1>5, MinOfTwo
<1>7. MaxRead \in Nat /\ Len(s) <= MaxRead /\ Len(st) <= MaxRead
  BY <1>5, SessionAssumption
<1>8. CASE n = Min({Len(s), MaxRead})
  BY <1>5, <1>7, <1>8, MinOfTwo
<1>9. CASE n = Min({Len(st), MaxRead}) /\ delivery = "merge"
  BY <1>5, <1>7, <1>9, MinOfTwo DEF st
<1>10. QED
  BY <1>4, <1>6, <1>8, <1>9 DEF ReadSizes, Uncut, st

LEMMA CutOne ==
  ASSUME NEW s \in Seq(Pieces)
  PROVE  SubSeq(s, 1, Len(s)) = s /\ SubSeq(s, Len(s) + 1, Len(s)) = << >>
<1>1. Len(s) \in Int /\ Len(s) + 1 \in Int /\ Len(s) < Len(s) + 1
  BY LenProperties
<1>2. QED
  BY <1>1, SubSeqFull, SubSeqEmpty

LEMMA CutTwo ==
  ASSUME NEW s \in Seq(Pieces), NEW t \in Seq(Pieces), s # << >>, t # << >>
  PROVE  /\ SubSeq(s \o t, 1, Len(s)) = s
         /\ SubSeq(s \o t, Len(s) + 1, Len(s \o t)) = t
<1>1. Len(s) \in Nat \ {0} /\ Len(t) \in Nat \ {0} /\ Len(s \o t) = Len(s) + Len(t)
  BY EmptySeq, ConcatProperties
<1>2. SubSeq(s \o t, 1, Len(s)) = SubSeq(s, 1, Len(s))
  BY <1>1, SubSeqOfConcat1
<1>3. SubSeq(s \o t, Len(s) + 1, Len(s \o t)) = SubSeq(t, 1, Len(t))
  <2>1. /\ Len(s) + 1 \in Len(s) + 1 .. Len(s) + Len(t)
        /\ Len(s) + Len(t) \in Len(s) + 1 .. Len(s) + Len(t)
    BY <1>1
  <2>2. SubSeq(s \o t, Len(s) + 1, Len(s) + Len(t))
          = SubSeq(t, Len(s) + 1 - Len(s), Len(s) + Len(t) - Len(s))
    BY <2>1, SubSeqOfConcat2
  <2>3. Len(s) + 1 - Len(s) = 1 /\ Len(s) + Len(t) - Len(s) = Len(t)
    BY <1>1
  <2>4. QED
    BY <1>1, <2>2, <2>3
<1>4. QED
  BY <1>2, <1>3, SubSeqFull

(* What the server, or the client, may read of one message or of two. *)
LEMMA ServerReadsOne ==
  ASSUME Uncut, MaxRead >= 4, Whole(toServer), NEW text, ServerReads(text)
  PROVE  text = toServer /\ toServer' = << >>
<1>1. toServer # << >> /\ toServer \in Seq(Pieces)
  BY DEF Whole
<1>2. PICK n \in ReadSizes(toServer) :
        /\ text = SubSeq(toServer, 1, n)
        /\ toServer' = SubSeq(toServer, n + 1, Len(toServer))
  BY <1>1 DEF ServerReads
<1>3. n = Len(toServer)
  BY ReadOne
<1>4. QED
  BY <1>1, <1>2, <1>3, CutOne

LEMMA ClientReadsOne ==
  ASSUME Uncut, MaxRead >= 4, Whole(toClient), NEW text, ClientReads(text)
  PROVE  text = toClient /\ toClient' = << >>
<1>1. toClient # << >> /\ toClient \in Seq(Pieces)
  BY DEF Whole
<1>2. PICK n \in ReadSizes(toClient) :
        /\ text = SubSeq(toClient, 1, n)
        /\ toClient' = SubSeq(toClient, n + 1, Len(toClient))
  BY <1>1 DEF ClientReads
<1>3. n = Len(toClient)
  BY ReadOne
<1>4. QED
  BY <1>1, <1>2, <1>3, CutOne

LEMMA Joined ==
  ASSUME NEW s, NEW t, Whole(s), Whole(t)
  PROVE  /\ s \in Seq(Pieces) /\ t \in Seq(Pieces) /\ s # << >> /\ t # << >>
         /\ s \o t \in Seq(Pieces) /\ s \o t # << >> /\ Len(s) < Len(s \o t)
         /\ \E i \in 1 .. Len(s \o t) : (s \o t)[i] = t[1]
<1>1. /\ s \in Seq(Pieces) /\ Len(s) \in Nat /\ 1 <= Len(s)
      /\ t \in Seq(Pieces) /\ Len(t) \in Nat /\ 1 <= Len(t)
      /\ s # << >> /\ t # << >>
  BY LenProperties DEF Whole
<1>2. /\ s \o t \in Seq(Pieces) /\ Len(s \o t) = Len(s) + Len(t)
      /\ \A i \in 1 .. Len(s) + Len(t) :
           (s \o t)[i] = IF i <= Len(s) THEN s[i] ELSE t[i - Len(s)]
  BY <1>1, ConcatProperties
<1>3. Len(s) + 1 \in 1 .. Len(s) + Len(t) /\ Len(s) + 1 - Len(s) = 1 /\ ~ (Len(s) + 1 <= Len(s))
  BY <1>1
<1>4. (s \o t)[Len(s) + 1] = t[1]
  BY <1>2, <1>3
<1>5. Len(s \o t) > 0 /\ s \o t # << >>
  BY <1>1, <1>2, EmptySeq
<1>6. QED
  BY <1>1, <1>2, <1>3, <1>4, <1>5

LEMMA ServerReadsTwo ==
  ASSUME Uncut, MaxRead >= 4, NEW s, NEW t, Whole(s), Whole(t), toServer = s \o t,
         NEW text, ServerReads(text)
  PROVE  \/ text = s /\ toServer' = t
         \/ text = s \o t /\ toServer' = << >> /\ delivery = "merge"
<1>1. /\ s \in Seq(Pieces) /\ t \in Seq(Pieces) /\ s # << >> /\ t # << >>
      /\ s \o t \in Seq(Pieces) /\ s \o t # << >>
  BY Joined
<1>2. PICK n \in ReadSizes(s \o t) :
        /\ text = SubSeq(s \o t, 1, n)
        /\ toServer' = SubSeq(s \o t, n + 1, Len(s \o t))
  BY <1>1 DEF ServerReads
<1>3. n = Len(s) \/ (n = Len(s \o t) /\ delivery = "merge")
  BY ReadTwo
<1>4. /\ SubSeq(s \o t, 1, Len(s)) = s
      /\ SubSeq(s \o t, Len(s) + 1, Len(s \o t)) = t
  BY <1>1, CutTwo
<1>5. /\ SubSeq(s \o t, 1, Len(s \o t)) = s \o t
      /\ SubSeq(s \o t, Len(s \o t) + 1, Len(s \o t)) = << >>
  BY <1>1, CutOne
<1>6. QED
  BY <1>2, <1>3, <1>4, <1>5, Zenon

LEMMA ClientReadsTwo ==
  ASSUME Uncut, MaxRead >= 4, NEW s, NEW t, Whole(s), Whole(t), toClient = s \o t,
         NEW text, ClientReads(text)
  PROVE  \/ text = s /\ toClient' = t
         \/ text = s \o t /\ toClient' = << >>
<1>1. /\ s \in Seq(Pieces) /\ t \in Seq(Pieces) /\ s # << >> /\ t # << >>
      /\ s \o t \in Seq(Pieces) /\ s \o t # << >>
  BY Joined
<1>2. PICK n \in ReadSizes(s \o t) :
        /\ text = SubSeq(s \o t, 1, n)
        /\ toClient' = SubSeq(s \o t, n + 1, Len(s \o t))
  BY <1>1 DEF ClientReads
<1>3. n = Len(s) \/ n = Len(s \o t)
  BY ReadTwo
<1>4. /\ SubSeq(s \o t, 1, Len(s)) = s
      /\ SubSeq(s \o t, Len(s) + 1, Len(s \o t)) = t
  BY <1>1, CutTwo
<1>5. /\ SubSeq(s \o t, 1, Len(s \o t)) = s \o t
      /\ SubSeq(s \o t, Len(s \o t) + 1, Len(s \o t)) = << >>
  BY <1>1, CutOne
<1>6. QED
  BY <1>2, <1>3, <1>4, <1>5, Zenon

LEMMA ServerBlocked ==
  ASSUME toServer = << >>, cli # "done", NEW text
  PROVE  ~ ServerReads(text)
BY DEF ServerReads

LEMMA ClientBlocked ==
  ASSUME toClient = << >>, srv # "ended", NEW text
  PROVE  ~ ClientReads(text)
BY DEF ClientReads

(* Two messages at once are not taken for one. *)
LEMMA TwoNotOne ==
  ASSUME NEW s, NEW k \in Kinds, NEW l \in Kinds, NEW a \in Seq(Int), k # l, Whole(s)
  PROVE  s \o Command(l) # Message(k, a)
<1>1. SUFFICES ASSUME s \o Command(l) = Message(k, a) PROVE FALSE
  OBVIOUS
<1>2. PICK i \in 1 .. Len(s \o Command(l)) : (s \o Command(l))[i] = Command(l)[1]
  BY CommandWhole, Joined
<1>3. Command(l)[1].kind = l
  <2>1. \A j \in 1 .. Len(Command(l)) : Command(l)[j].kind = l
    BY CommandPieces
  <2>2. Len(Command(l)) \in {1, 2}
    BY CommandPieces
  <2>3. QED
    BY <2>1, <2>2
<1>4. \A j \in 1 .. Len(Message(k, a)) : Message(k, a)[j].kind = k
  BY MessagePieces
<1>5. QED
  BY <1>1, <1>2, <1>3, <1>4

-------------------------------------------------------------------------
(* Where client and server are together, step by step.                     *)
LEMMA Texts ==
  ASSUME TypeOK
  PROVE  /\ sent \in 1 .. N /\ sent \in Int /\ idx \in Int /\ idx >= 0 /\ Wanted \in Nat \X Nat
         /\ Whole(OK) /\ Whole(Request) /\ Whole(Answer)
         /\ \A k \in Kinds : Whole(Command(k))
         /\ sent \in EmptySource => SourceText = << >>
         /\ sent \notin EmptySource =>
              SourceText = Message("source", << sent >>) /\ Whole(SourceText)
         /\ RefLen[sent] = 0 => ReferenceText = << >>
         /\ RefLen[sent] # 0 =>
              ReferenceText = Message("reference", << sent >>) /\ Whole(ReferenceText)
         /\ Whole(Message("typed", << sent, idx >>))
<1>1. sent \in 1 .. N /\ sent \in Int /\ idx \in Int /\ idx >= 0 /\ sent \in Nat
  BY SessionAssumption DEF TypeOK
<1>2. Wanted \in Nat \X Nat
  BY <1>1 DEF Wanted, NoPrefix
<1>3. \A k \in Kinds : Whole(Command(k))
  BY CommandWhole
<1>4. << sent >> \in Seq(Int) /\ << sent, idx >> \in Seq(Int)
  BY <1>1, OneIn, TwoIn, Zenon
<1>5. << sent >> \o Wanted \in Seq(Int)
  BY <1>1, <1>2, Sendable DEF Kinds
<1>6. Whole(Answer)
  BY <1>5, MessageWhole DEF Answer, Kinds
<1>7. /\ Whole(Message("source", << sent >>)) /\ Whole(Message("reference", << sent >>))
      /\ Whole(Message("typed", << sent, idx >>))
  BY <1>4, MessageWhole DEF Kinds
<1>8. Whole(OK) /\ Whole(Request)
  BY <1>3 DEF OK, Request, Kinds
<1>9. /\ sent \in EmptySource => SourceText = << >>
      /\ sent \notin EmptySource =>
           SourceText = Message("source", << sent >>) /\ Whole(SourceText)
  BY <1>7 DEF SourceText
<1>10. /\ RefLen[sent] = 0 => ReferenceText = << >>
       /\ RefLen[sent] # 0 =>
            ReferenceText = Message("reference", << sent >>) /\ Whole(ReferenceText)
  BY <1>7 DEF ReferenceText
<1>11. QED
  BY <1>1, <1>2, <1>3, <1>6, <1>7, <1>8, <1>9, <1>10

LEMMA Joins ==
  ASSUME NEW s \in Seq(Pieces)
  PROVE  << >> \o s = s /\ s \o << >> = s
BY ConcatEmptySeq

LEMMA NewSentencePhase ==
  ASSUME TypeOK, Phase, NewSentence PROVE Phase'
<1>1. cli = "start" /\ idx = 0 /\ Idle
  BY DEF NewSentence, Phase, Opened, Asking, Updating, Updated
<1>2. << >> \o Command("new_sentence") = Command("new_sentence")
  BY CommandPieces, Joins DEF Kinds
<1>3. Opened' /\ idx' = 0
  BY <1>1, <1>2 DEF NewSentence, ClientWrites, Opened, Idle, Alone, serverVars
<1>4. QED
  BY <1>3 DEF Phase

LEMMA StartedOKPhase ==
  ASSUME TypeOK, Uncut, MaxRead >= 4, Phase, StartedOK PROVE Phase'
<1>1. /\ cli = "started" /\ idx = 0
      /\ Alone("command", Command("new_sentence")) \/ Answered("source", OK)
  BY DEF StartedOK, Phase, Opened, Asking, Updating, Updated
<1>2. PICK text : ClientReads(text) /\ (text = OK => cli' = "send_source")
  BY DEF StartedOK
<1>3. Answered("source", OK)
  BY <1>1, <1>2, ClientBlocked DEF Alone
<1>4. text = OK /\ toClient' = << >>
  BY <1>2, <1>3, Texts, ClientReadsOne DEF Answered
<1>5. Opened' /\ idx' = 0
  BY <1>1, <1>2, <1>3, <1>4 DEF StartedOK, Opened, Answered, Alone, serverVars
<1>6. QED
  BY <1>5 DEF Phase

LEMMA SendSourcePhase ==
  ASSUME TypeOK, Phase, SendSource PROVE Phase'
<1>1. cli = "send_source" /\ idx = 0 /\ Alone("source", << >>)
  BY DEF SendSource, Phase, Opened, Asking, Updating, Updated
<1>2. << >> \o SourceText = SourceText
  BY Texts, Joins DEF Whole
<1>3. Opened' /\ idx' = 0
  BY <1>1, <1>2 DEF SendSource, ClientWrites, Opened, Alone, SourceText, serverVars
<1>4. QED
  BY <1>3 DEF Phase

LEMMA AskPhase ==
  ASSUME TypeOK, Phase, Ask PROVE Phase'
<1>1. /\ cli = "ask" /\ cli' = "asked" /\ idx < RefLen[sent]
      /\ UNCHANGED << toClient, srv, source, typed, sent, idx, delivery >>
      /\ toServer' = toServer \o Request
  BY DEF Ask, ClientWrites, Request, serverVars
<1>2. SourceText' = SourceText /\ Request' = Request
  BY <1>1 DEF SourceText, Request
<1>3. << >> \o Request = Request
  BY Texts, Joins DEF Whole
<1>4. \/ idx = 0 /\ Alone("source", SourceText)
      \/ source = sent /\ Idle
  BY <1>1 DEF Phase, Opened, Asking, Updating, Updated
<1>5. Asking'
  BY <1>1, <1>2, <1>3, <1>4 DEF Asking, Alone, Idle
<1>6. QED
  BY <1>1, <1>5 DEF Phase

LEMMA AskedOKPhase ==
  ASSUME TypeOK, Uncut, MaxRead >= 4, Phase, AskedOK
  PROVE  Phase' /\ (idx = 0 \/ cli' # "compare")
<1>1. /\ cli = "asked" /\ idx < RefLen[sent]
      /\ UNCHANGED << toServer, srv, source, typed, sent, idx, delivery >>
  BY DEF AskedOK, serverVars, Phase, Opened, Asking, Updating, Updated
<1>2. PICK text :
        /\ ClientReads(text)
        /\ cli' = IF text # OK THEN "compare"
                  ELSE IF idx > 0 THEN "send_prefix" ELSE "await_answer"
  BY DEF AskedOK
<1>3. /\ source = sent
      /\ \/ idx > 0 /\ Answered("prefix", OK)
         \/ idx = 0 /\ typed = Wanted /\ Answered("answer", OK)
         \/ idx = 0 /\ Answered("command", OK \o Answer)
  BY <1>1, <1>2, ClientBlocked
     DEF Phase, Opened, Asking, Updating, Updated, Alone, Lost, Idle
<1>4. Answer' = Answer /\ Wanted' = Wanted
  BY <1>1 DEF Answer, Wanted
<1>5. CASE idx > 0 /\ Answered("prefix", OK)
  <2>1. text = OK /\ toClient' = << >>
    BY <1>2, <1>5, Texts, ClientReadsOne DEF Answered
  <2>2. QED
    BY <1>1, <1>2, <1>3, <1>5, <2>1 DEF Phase, Asking, Answered, Alone
<1>6. CASE idx = 0 /\ typed = Wanted /\ Answered("answer", OK)
  <2>1. text = OK /\ toClient' = << >>
    BY <1>2, <1>6, Texts, ClientReadsOne DEF Answered
  <2>2. QED
    BY <1>1, <1>2, <1>3, <1>4, <1>6, <2>1 DEF Phase, Asking, Answered, Alone
<1>7. CASE idx = 0 /\ Answered("command", OK \o Answer)
  <2>1. \/ text = OK /\ toClient' = Answer
        \/ text = OK \o Answer /\ toClient' = << >>
    BY <1>2, <1>7, Texts, ClientReadsTwo DEF Answered
  <2>2. OK \o Answer # OK
    BY Texts, Joined
  <2>3. QED
    BY <1>1, <1>2, <1>3, <1>4, <1>7, <2>1, <2>2 DEF Phase, Asking, Answered, Alone, Idle
<1>8. QED
  BY <1>3, <1>5, <1>6, <1>7

LEMMA SendPrefixPhase ==
  ASSUME TypeOK, Phase, SendPrefix PROVE Phase'
<1>1. /\ idx > 0 /\ idx < RefLen[sent] /\ source = sent /\ Alone("prefix", << >>)
      /\ UNCHANGED << toClient, srv, source, typed, sent, idx, delivery >>
      /\ toServer' = toServer \o Message("typed", << sent, idx >>) /\ cli' = "await_answer"
  BY DEF SendPrefix, ClientWrites, serverVars, Phase, Opened, Asking, Updating, Updated
<1>2. << >> \o Message("typed", << sent, idx >>) = Message("typed", << sent, idx >>)
  BY Texts, Joins DEF Whole
<1>3. QED
  BY <1>1, <1>2 DEF Phase, Asking, Alone

LEMMA GetAnswerPhase ==
  ASSUME TypeOK, Uncut, MaxRead >= 4, Phase, GetAnswer
  PROVE  Phase' /\ res' = Answer /\ idx < RefLen[sent]
<1>1. /\ cli = "await_answer" /\ idx < RefLen[sent] /\ source = sent
      /\ UNCHANGED << toServer, srv, source, typed, sent, idx, delivery >> /\ cli' = "compare"
      /\ \/ Alone("prefix", Message("typed", << sent, idx >>))
         \/ Alone("answer", << >>)
         \/ Answered("command", Answer)
  BY DEF GetAnswer, serverVars, Phase, Opened, Asking, Updating, Updated
<1>2. PICK text : ClientReads(text) /\ res' = text
  BY DEF GetAnswer
<1>3. Answered("command", Answer)
  BY <1>1, <1>2, ClientBlocked DEF Alone
<1>4. text = Answer /\ toClient' = << >>
  BY <1>2, <1>3, Texts, ClientReadsOne DEF Answered
<1>5. QED
  BY <1>1, <1>2, <1>3, <1>4 DEF Phase, Asking, Answered, Idle

LEMMA ComparePhase ==
  ASSUME TypeOK, Phase, Compare
  PROVE  Phase' /\ idx < RefLen[sent]
<1>1. /\ idx < RefLen[sent] /\ source = sent /\ Idle
      /\ UNCHANGED << toClient, toServer, srv, source, sent >> /\ cli' = "ask"
  BY DEF Compare, serverVars, Phase, Opened, Asking, Updating, Updated
<1>2. QED
  BY <1>1 DEF Phase, Idle

LEMMA SendUpdatePhase ==
  ASSUME TypeOK, Phase, SendUpdate PROVE Phase'
<1>1. /\ cli = "ask" /\ idx >= RefLen[sent] /\ cli' = "updated"
      /\ UNCHANGED << toClient, srv, source, typed, sent, idx, delivery >>
      /\ toServer' = toServer \o Command("update")
  BY DEF SendUpdate, ClientWrites, serverVars, Phase, Opened, Asking, Updating, Updated
<1>2. SourceText' = SourceText
  BY <1>1 DEF SourceText
<1>3. << >> \o Command("update") = Command("update")
  BY CommandPieces, Joins DEF Kinds
<1>4. Alone("source", SourceText) \/ (source = sent /\ Idle)
  BY <1>1 DEF Phase, Opened, Asking, Updating, Updated
<1>5. Updating'
  BY <1>1, <1>2, <1>3, <1>4 DEF Updating, Alone, Idle
<1>6. QED
  BY <1>1, <1>5 DEF Phase

LEMMA UpdatedOKPhase ==
  ASSUME TypeOK, Uncut, MaxRead >= 4, Phase, UpdatedOK
  PROVE  Phase' /\ cli' = "send_reference"
<1>1. /\ cli = "updated" /\ idx >= RefLen[sent]
      /\ UNCHANGED << toServer, srv, source, sent, idx, delivery >>
  BY DEF UpdatedOK, serverVars, Phase, Opened, Asking, Updating, Updated
<1>2. PICK text : ClientReads(text) /\ (text = OK => cli' = "send_reference")
  BY DEF UpdatedOK
<1>3. source = sent /\ Answered("reference", OK)
  BY <1>1, <1>2, ClientBlocked
     DEF Phase, Opened, Asking, Updating, Updated, Alone, Lost, Idle
<1>4. text = OK /\ toClient' = << >>
  BY <1>2, <1>3, Texts, ClientReadsOne DEF Answered
<1>5. QED
  BY <1>1, <1>2, <1>3, <1>4 DEF Phase, Updating, Answered, Alone

LEMMA SendReferencePhase ==
  ASSUME TypeOK, Phase, SendReference PROVE Phase'
<1>1. /\ idx >= RefLen[sent] /\ source = sent /\ Alone("reference", << >>)
      /\ UNCHANGED << toClient, srv, source, sent, idx, delivery >>
      /\ toServer' = toServer \o ReferenceText /\ cli' = "await_learnt"
  BY DEF SendReference, ReferenceText, ClientWrites, serverVars, Phase, Opened, Asking,
         Updating, Updated
<1>2. << >> \o ReferenceText = ReferenceText
  BY Texts, Joins DEF Whole
<1>3. ReferenceText' = ReferenceText
  BY <1>1 DEF ReferenceText
<1>4. QED
  BY <1>1, <1>2, <1>3 DEF Phase, Updating, Alone

LEMMA LearntOKPhase ==
  ASSUME TypeOK, Uncut, MaxRead >= 4, Phase, LearntOK
  PROVE  Phase' /\ Past
<1>1. /\ cli = "await_learnt" /\ idx >= RefLen[sent] /\ cli' = "next"
      /\ UNCHANGED << toServer, srv, source, sent, idx, delivery >>
  BY DEF LearntOK, serverVars, Phase, Opened, Asking, Updating, Updated
<1>2. PICK text : ClientReads(text)
  BY DEF LearntOK
<1>3. Answered("command", OK)
  BY <1>1, <1>2, ClientBlocked
     DEF Phase, Opened, Asking, Updating, Updated, Alone
<1>4. text = OK /\ toClient' = << >>
  BY <1>2, <1>3, Texts, ClientReadsOne DEF Answered
<1>5. QED
  BY <1>1, <1>2, <1>3, <1>4 DEF Phase, Updated, Answered, Idle, Past

LEMMA NextSentencePhase ==
  ASSUME TypeOK, Phase, NextSentence PROVE Phase' /\ idx >= RefLen[sent]
<1>1. /\ cli = "next" /\ idx >= RefLen[sent] /\ Idle /\ UNCHANGED << toClient, srv, source >>
  BY DEF NextSentence, serverVars, Phase, Opened, Asking, Updating, Updated
<1>2. CASE sent < N
  BY <1>1, <1>2 DEF NextSentence, Phase, Opened, Idle
<1>3. CASE ~ (sent < N)
  <2>1. sent = N
    BY <1>3, SessionAssumption DEF TypeOK
  <2>2. << >> \o Command("close") = Command("close")
    BY CommandPieces, Joins DEF Kinds
  <2>3. QED
    BY <1>1, <1>3, <2>1, <2>2 DEF NextSentence, ClientWrites, Phase, Updated, Idle, Alone
<1>4. QED
  BY <1>2, <1>3

(* A command that is read alone is answered with ok. *)
LEMMA CommandRead ==
  ASSUME TypeOK, Uncut, MaxRead >= 4, GetCommand, toClient = << >>,
         NEW k \in Kinds, toServer = Command(k)
  PROVE  /\ toServer' = << >>
         /\ k \in DOMAIN Replies =>
              /\ toClient' = OK /\ srv' = Replies[k]
              /\ typed' = IF k = "no-prefix" THEN NoPrefix ELSE typed
         /\ k = "close" => srv' = "ended" /\ toClient' = << >>
<1>1. PICK text :
        /\ ServerReads(text)
        /\ \/ \E c \in DOMAIN Replies :
                /\ text = Command(c)
                /\ ServerWrites(OK)
                /\ srv' = Replies[c]
                /\ typed' = IF c = "no-prefix" THEN NoPrefix ELSE typed
           \/ text = Command("close") /\ srv' = "ended" /\ UNCHANGED << toClient, typed >>
           \/ /\ text \notin {Command(c) : c \in DOMAIN Replies \cup {"close"}}
              /\ UNCHANGED << srv, toClient, typed >>
  BY DEF GetCommand
<1>2. text = Command(k) /\ toServer' = << >>
  BY <1>1, CommandWhole, ServerReadsOne
<1>3. \A c \in Kinds : Command(c) = Command(k) => c = k
  BY CommandsDiffer
<1>4. DOMAIN Replies \subseteq Kinds /\ "close" \in Kinds /\ "close" \notin DOMAIN Replies
  BY DEF Replies, Kinds
<1>5. << >> \o OK = OK
  BY Texts, Joins DEF Whole
<1>6. CASE k \in DOMAIN Replies
  <2>1. PICK c \in DOMAIN Replies :
          /\ text = Command(c)
          /\ toClient' = OK
          /\ srv' = Replies[c]
          /\ typed' = IF c = "no-prefix" THEN NoPrefix ELSE typed
    BY <1>1, <1>2, <1>3, <1>4, <1>5, <1>6 DEF ServerWrites
  <2>2. c = k
    BY <1>2, <1>3, <1>4, <2>1
  <2>3. QED
    BY <1>2, <1>4, <1>6, <2>1, <2>2
<1>7. CASE k = "close"
  BY <1>1, <1>2, <1>3, <1>4, <1>7
<1>8. CASE k \notin DOMAIN Replies /\ k # "close"
  BY <1>2, <1>8
<1>9. QED
  BY <1>6, <1>7, <1>8

LEMMA GetCommandPhase ==
  ASSUME TypeOK, Uncut, MaxRead >= 4, Phase, GetCommand PROVE Phase' /\ (Past' <=> Past)
<1>1. srv = "command" /\ UNCHANGED << cli, source, sent, idx, delivery >>
  BY DEF GetCommand, clientVars
<1>2. Wanted' = Wanted /\ Request' = Request
  BY <1>1 DEF Wanted, Request
<1>3. cli = "done" \/ toServer # << >>
  BY ServerBlocked DEF GetCommand
<1>4. \/ cli = "started" /\ idx = 0 /\ Alone("command", Command("new_sentence"))
      \/ cli = "asked" /\ source = sent /\ idx < RefLen[sent] /\ Alone("command", Request)
      \/ /\ cli = "updated" /\ source = sent /\ idx >= RefLen[sent]
         /\ Alone("command", Command("update"))
      \/ /\ cli = "done" /\ sent = N /\ idx >= RefLen[sent]
         /\ Alone("command", Command("close"))
  BY <1>1, <1>3 DEF Phase, Opened, Asking, Updating, Updated, Idle, Alone, Answered, Lost
<1>5. CASE cli = "started" /\ idx = 0 /\ Alone("command", Command("new_sentence"))
  <2>1. toServer' = << >> /\ toClient' = OK /\ srv' = "source"
    BY <1>5, CommandRead DEF Alone, Replies, Kinds
  <2>2. QED
    BY <1>1, <1>5, <2>1 DEF Phase, Opened, Answered, Past
<1>6. CASE cli = "asked" /\ source = sent /\ idx < RefLen[sent] /\ Alone("command", Request)
  <2>1. CASE idx > 0
    <3>1. toServer' = << >> /\ toClient' = OK /\ srv' = "prefix"
      BY <1>6, <2>1, CommandRead DEF Alone, Request, Replies, Kinds
    <3>2. QED
      BY <1>1, <1>6, <2>1, <3>1 DEF Phase, Asking, Answered, Past
  <2>2. CASE ~ (idx > 0)
    <3>1. toServer' = << >> /\ toClient' = OK /\ srv' = "answer" /\ typed' = NoPrefix
      BY <1>6, <2>2, CommandRead DEF Alone, Request, Replies, Kinds
    <3>2. idx = 0
      BY <2>2, Texts
    <3>3. QED
      BY <1>1, <1>2, <1>6, <3>1, <3>2 DEF Phase, Asking, Answered, Past, Wanted
  <2>3. QED
    BY <2>1, <2>2
<1>7. CASE /\ cli = "updated" /\ source = sent /\ idx >= RefLen[sent]
           /\ Alone("command", Command("update"))
  <2>1. toServer' = << >> /\ toClient' = OK /\ srv' = "reference"
    BY <1>7, CommandRead DEF Alone, Replies, Kinds
  <2>2. QED
    BY <1>1, <1>7, <2>1 DEF Phase, Updating, Answered, Past
<1>8. CASE /\ cli = "done" /\ sent = N /\ idx >= RefLen[sent]
           /\ Alone("command", Command("close"))
  <2>1. toServer' = << >> /\ toClient' = << >> /\ srv' = "ended"
    BY <1>8, CommandRead DEF Alone, Kinds
  <2>2. QED
    BY <1>1, <1>8, <2>1 DEF Phase, Updated, Alone, Past
<1>9. QED
  BY <1>4, <1>5, <1>6, <1>7, <1>8

(* The source is read alone, or lost in what comes after it. *)
LEMMA SourceRead ==
  ASSUME TypeOK, Uncut, MaxRead >= 4, GetSource, cli # "done",
         NEW k \in Kinds, k # "source", toServer = SourceText \o Command(k)
  PROVE  \/ source' = sent /\ toServer' = Command(k)
         \/ /\ source' = 0 /\ toServer' = << >>
            /\ delivery = "merge" \/ sent \in EmptySource
<1>1. PICK text : ServerReads(text) /\ source' = Source(text)
  BY DEF GetSource
<1>2. \A s \in 1 .. N : << s >> \in Seq(Int)
  BY OneIn, SessionAssumption
<1>3. CASE sent \in EmptySource
  <2>1. toServer = Command(k)
    BY <1>3, Texts, Joins, CommandPieces
  <2>2. text = Command(k) /\ toServer' = << >>
    BY <1>1, <2>1, CommandWhole, ServerReadsOne
  <2>3. \A s \in 1 .. N : Command(k) # Message("source", << s >>)
    <3>1. PICK none \in Seq(Int) : none = << >>
      BY EmptySeq
    <3>2. Command(k) = Message(k, none)
      BY <3>1 DEF Command
    <3>3. \A about \in Seq(Int) : Message(k, none) # Message("source", about)
      BY MessagesDiffer DEF Kinds
    <3>4. QED
      BY <1>2, <3>2, <3>3
  <2>4. QED
    BY <1>1, <1>3, <2>2, <2>3, SourceOf
<1>4. CASE sent \notin EmptySource
  <2>1. Whole(SourceText) /\ Whole(Command(k)) /\ SourceText = Message("source", << sent >>)
    BY <1>4, Texts
  <2>2. \/ text = SourceText /\ toServer' = Command(k)
        \/ text = SourceText \o Command(k) /\ toServer' = << >> /\ delivery = "merge"
    BY <1>1, <2>1, ServerReadsTwo
  <2>3. \A s \in 1 .. N : SourceText \o Command(k) # Message("source", << s >>)
    BY <1>2, <2>1, TwoNotOne DEF Kinds
  <2>4. QED
    BY <1>1, <2>1, <2>2, <2>3, Texts, SourceOf
<1>5. QED
  BY <1>3, <1>4

LEMMA GetSourcePhase ==
  ASSUME TypeOK, Uncut, MaxRead >= 4, Phase, GetSource
  PROVE  Phase' /\ ~ Past /\ ~ Past' /\ source' \in {0, sent}
<1>1. /\ srv = "source" /\ srv' = "command"
      /\ UNCHANGED << toClient, cli, sent, idx, typed, delivery >>
  BY DEF GetSource, clientVars
<1>2. cli = "done" \/ toServer # << >>
  BY ServerBlocked DEF GetSource
<1>3. \/ cli = "ask" /\ idx = 0 /\ Alone("source", SourceText)
      \/ /\ cli = "asked" /\ idx = 0 /\ idx < RefLen[sent]
         /\ Alone("source", SourceText \o Request)
      \/ /\ cli = "updated" /\ idx >= RefLen[sent]
         /\ Alone("source", SourceText \o Command("update"))
  BY <1>1, <1>2 DEF Phase, Opened, Asking, Updating, Updated, Idle, Alone, Answered, Lost
<1>4. ~ Past /\ ~ Past'
  BY <1>1, <1>3 DEF Past
<1>5. CASE cli = "ask" /\ idx = 0 /\ Alone("source", SourceText)
  <2>1. sent \notin EmptySource
    BY <1>2, <1>5, Texts DEF Alone
  <2>2. Whole(SourceText) /\ SourceText = Message("source", << sent >>)
    BY <2>1, Texts
  <2>3. PICK text : ServerReads(text) /\ source' = Source(text)
    BY DEF GetSource
  <2>4. text = SourceText /\ toServer' = << >>
    BY <1>5, <2>2, <2>3, ServerReadsOne DEF Alone
  <2>5. source' = sent
    BY <2>2, <2>3, <2>4, SourceOf, Texts
  <2>6. QED
    BY <1>1, <1>4, <1>5, <2>4, <2>5 DEF Phase, Alone, Idle
<1>6. CASE /\ cli = "asked" /\ idx = 0 /\ idx < RefLen[sent]
           /\ Alone("source", SourceText \o Request)
  <2>1. \/ source' = sent /\ toServer' = Request
        \/ /\ source' = 0 /\ toServer' = << >>
           /\ delivery = "merge" \/ sent \in EmptySource
    BY <1>6, SourceRead DEF Alone, Request, Kinds
  <2>2. Request' = Request
    BY <1>1 DEF Request
  <2>3. Asking'
    BY <1>1, <1>6, <2>1, <2>2 DEF Asking, Alone, Idle, Lost
  <2>4. QED
    BY <1>1, <1>4, <1>6, <2>1, <2>3 DEF Phase
<1>7. CASE /\ cli = "updated" /\ idx >= RefLen[sent]
           /\ Alone("source", SourceText \o Command("update"))
  <2>1. \/ source' = sent /\ toServer' = Command("update")
        \/ /\ source' = 0 /\ toServer' = << >>
           /\ delivery = "merge" \/ sent \in EmptySource
    BY <1>7, SourceRead DEF Alone, Kinds
  <2>2. Updating'
    BY <1>1, <1>7, <2>1 DEF Updating, Alone, Idle, Lost
  <2>3. QED
    BY <1>1, <1>4, <1>7, <2>1, <2>2 DEF Phase
<1>8. QED
  BY <1>3, <1>5, <1>6, <1>7

LEMMA GetPrefixPhase ==
  ASSUME TypeOK, Uncut, MaxRead >= 4, Phase, GetPrefix PROVE Phase' /\ (Past' <=> Past)
<1>1. /\ srv = "prefix" /\ srv' = "answer"
      /\ UNCHANGED << toClient, cli, source, sent, idx, delivery >>
  BY DEF GetPrefix, clientVars
<1>2. PICK text : ServerReads(text) /\ typed' = Typed(text)
  BY DEF GetPrefix
<1>3. cli = "done" \/ toServer # << >>
  BY <1>2, ServerBlocked
<1>4. /\ cli = "await_answer" /\ source = sent /\ idx > 0 /\ idx < RefLen[sent]
      /\ Alone("prefix", Message("typed", << sent, idx >>))
  BY <1>1, <1>3 DEF Phase, Opened, Asking, Updating, Updated, Idle, Alone, Answered, Lost
<1>5. text = Message("typed", << sent, idx >>) /\ toServer' = << >>
  BY <1>2, <1>4, Texts, ServerReadsOne DEF Alone
<1>6. idx \in 1 .. RefLen[sent] /\ sent \in 1 .. N
  BY <1>4, SessionAssumption DEF TypeOK
<1>7. typed' = << sent, idx >>
  BY <1>2, <1>5, <1>6, TypedOf
<1>8. typed' = Wanted'
  BY <1>1, <1>4, <1>7 DEF Wanted
<1>9. Asking'
  BY <1>1, <1>4, <1>5, <1>8 DEF Asking, Alone
<1>10. QED
  BY <1>1, <1>4, <1>9 DEF Phase, Past

LEMMA SendAnswerPhase ==
  ASSUME TypeOK, Phase, SendAnswer PROVE Phase' /\ (Past' <=> Past)
<1>1. /\ srv = "answer" /\ srv' = "command"
      /\ UNCHANGED << toServer, cli, source, sent, idx, delivery >>
      /\ toClient' = toClient \o Message("answer", << source >> \o typed)
  BY DEF SendAnswer, ServerWrites, clientVars
<1>2. /\ source = sent /\ idx < RefLen[sent] /\ typed = Wanted
      /\ \/ cli = "asked" /\ idx = 0 /\ Answered("answer", OK)
         \/ cli = "await_answer" /\ Alone("answer", << >>)
  BY <1>1 DEF Phase, Opened, Asking, Updating, Updated, Idle, Alone, Answered, Lost
<1>3. Message("answer", << source >> \o typed) = Answer
  BY <1>2 DEF Answer
<1>4. Answer' = Answer
  BY <1>1 DEF Answer, Wanted
<1>5. << >> \o Answer = Answer
  BY Texts, Joins DEF Whole
<1>6. Asking'
  BY <1>1, <1>2, <1>3, <1>4, <1>5 DEF Asking, Alone, Answered
<1>7. QED
  BY <1>1, <1>2, <1>6 DEF Phase, Past

LEMMA GetReferencePhase ==
  ASSUME TypeOK, Uncut, MaxRead >= 4, Phase, GetReference
  PROVE  /\ Phase' /\ ~ Past /\ Past' /\ source = sent /\ idx >= RefLen[sent]
         /\ weights' = IF Learning THEN Append(weights, << sent, sent >>) ELSE weights
<1>1. /\ srv = "reference" /\ srv' = "learnt"
      /\ UNCHANGED << toClient, cli, source, sent, idx, delivery >>
  BY DEF GetReference, clientVars
<1>2. PICK text :
        /\ ServerReads(text)
        /\ weights' = IF Learning THEN Append(weights, << source, Reference(text) >>)
                                  ELSE weights
  BY DEF GetReference
<1>3. cli = "done" \/ toServer # << >>
  BY <1>2, ServerBlocked
<1>4. /\ cli = "await_learnt" /\ source = sent /\ idx >= RefLen[sent]
      /\ Alone("reference", ReferenceText)
  BY <1>1, <1>3 DEF Phase, Opened, Asking, Updating, Updated, Idle, Alone, Answered, Lost
<1>5. ReferenceText = Message("reference", << sent >>) /\ Whole(ReferenceText)
  BY <1>3, <1>4, Texts DEF Alone
<1>6. text = ReferenceText /\ toServer' = << >>
  BY <1>2, <1>4, <1>5, ServerReadsOne DEF Alone
<1>7. Reference(text) = sent
  BY <1>5, <1>6, ReferenceOf, Texts
<1>8. QED
  BY <1>1, <1>2, <1>4, <1>6, <1>7 DEF Phase, Updated, Alone, Past

LEMMA SendLearntPhase ==
  ASSUME TypeOK, Phase, SendLearnt PROVE Phase' /\ (Past' <=> Past)
<1>1. /\ srv = "learnt" /\ srv' = "command"
      /\ UNCHANGED << toServer, cli, source, sent, idx, delivery >>
      /\ toClient' = toClient \o OK
  BY DEF SendLearnt, ServerWrites, clientVars
<1>2. /\ idx >= RefLen[sent]
      /\ cli = "await_learnt" /\ Alone("learnt", << >>)
  BY <1>1 DEF Phase, Opened, Asking, Updating, Updated, Idle, Alone, Answered, Lost
<1>3. << >> \o OK = OK
  BY Texts, Joins DEF Whole
<1>4. QED
  BY <1>1, <1>2, <1>3 DEF Phase, Updated, Alone, Answered, Past

-------------------------------------------------------------------------
(* The invariant of a connection that keeps messages whole.                *)
LEMMA InitWhole == Init => IInv
<1> SUFFICES ASSUME Init PROVE IInv
  OBVIOUS
<1>1. Phase /\ Offered
  BY DEF Init, Phase, Opened, Idle, Offered
<1>2. Len(weights) = 0 /\ DOMAIN weights = {} /\ sent - 1 = 0
  BY DEF Init
<1>3. LearntSoFar
  BY <1>2 DEF Init, LearntSoFar, Past
<1>4. QED
  BY <1>1, <1>3, InitTyped DEF IInv

LEMMA OfferedKept ==
  ASSUME TypeOK, Offered, UNCHANGED << res, sent, idx >>, idx = 0 \/ cli' # "compare"
  PROVE  Offered'
<1>1. Answer' = Answer
  BY DEF Answer, Wanted
<1>2. QED
  BY <1>1 DEF Offered

(* What a client step does to the dialogue is a step of it. *)
LEMMA ClientWhole ==
  ASSUME IInv, Uncut, MaxRead >= 4, Client
  PROVE  Phase' /\ Offered' /\ LearntSoFar'
<1>0. TypeOK /\ Phase /\ Offered /\ LearntSoFar
  BY DEF IInv
<1>1. UNCHANGED << srv, source, weights, decodedBy, delivery >>
  BY DEF Client, serverVars, NewSentence, StartedOK, SendSource, Ask, AskedOK, SendPrefix,
         GetAnswer, Compare, SendUpdate, UpdatedOK, SendReference, LearntOK, NextSentence
<1>2. ASSUME ~ Past, ~ Past', sent' = sent PROVE LearntSoFar'
  BY <1>0, <1>1, <1>2 DEF LearntSoFar
<1>3. CASE NewSentence
  BY <1>0, <1>2, <1>3, NewSentencePhase, OfferedKept DEF NewSentence, Past
<1>4. CASE StartedOK
  BY <1>0, <1>2, <1>4, StartedOKPhase, OfferedKept DEF StartedOK, Past
<1>5. CASE SendSource
  BY <1>0, <1>2, <1>5, SendSourcePhase, OfferedKept DEF SendSource, Past
<1>6. CASE Ask
  BY <1>0, <1>2, <1>6, AskPhase, OfferedKept DEF Ask, Past

<1>7. CASE AskedOK
  BY <1>0, <1>2, <1>7, AskedOKPhase, OfferedKept DEF AskedOK, Past
<1>8. CASE SendPrefix
  BY <1>0, <1>2, <1>8, SendPrefixPhase, OfferedKept DEF SendPrefix, Past
<1>9. CASE GetAnswer
  <2>1. Answer' = Answer
    BY <1>9 DEF GetAnswer, Answer, Wanted
  <2>2. Offered'
    BY <1>0, <1>9, <2>1, GetAnswerPhase DEF Offered
  <2>3. QED
    BY <1>0, <1>2, <1>9, <2>2, GetAnswerPhase DEF GetAnswer, Past
<1>10. CASE Compare
  <2>1. idx' > 0 /\ cli' = "ask" /\ UNCHANGED << sent, res >>
    BY <1>0, <1>10, Texts DEF Compare
  <2>2. res = << >> \/ res = Answer
    BY <1>0, <1>10 DEF Compare, Offered
  <2>3. Wanted \in Nat \X Nat
    BY <1>0, Texts
  <2>4. Offered'
    BY <2>1, <2>2, <2>3 DEF Offered, Answer
  <2>5. QED
    BY <1>0, <1>2, <1>10, <2>4, ComparePhase DEF Compare, Past
<1>11. CASE SendUpdate
  BY <1>0, <1>2, <1>11, SendUpdatePhase, OfferedKept DEF SendUpdate, Past
<1>12. CASE UpdatedOK
  <2>1. cli' # "compare" /\ ~ Past /\ UNCHANGED << res, sent, idx >>
    BY <1>12 DEF UpdatedOK, Past
  <2>2. ~ Past'
    BY <1>0, <1>12, UpdatedOKPhase DEF UpdatedOK, Past
  <2>3. QED
    BY <1>0, <1>2, <1>12, <2>1, <2>2, UpdatedOKPhase, OfferedKept
<1>13. CASE SendReference
  <2>1. srv = "reference"
    BY <1>0, <1>13 DEF SendReference, Phase, Opened, Asking, Updating, Updated, Alone
  <2>2. QED
    BY <1>0, <1>1, <1>2, <1>13, <2>1, SendReferencePhase, OfferedKept DEF SendReference, Past
<1>14. CASE LearntOK
  <2>1. Past /\ Past' /\ sent' = sent
    BY <1>0, <1>14, LearntOKPhase DEF LearntOK, Past
  <2>2. LearntSoFar'
    BY <1>0, <1>1, <2>1 DEF LearntSoFar
  <2>3. QED
    BY <1>0, <1>14, <2>2, LearntOKPhase, OfferedKept DEF LearntOK
<1>15. CASE NextSentence
  <2>1. CASE sent < N
    <3>1. Past /\ ~ Past' /\ sent' = sent + 1 /\ res' = << >>
      BY <1>15, <2>1 DEF NextSentence, Past
    <3>2. sent' - 1 = sent
      BY <1>0, <3>1, Texts
    <3>3. LearntSoFar' /\ Offered'
      BY <1>0, <1>1, <3>1, <3>2 DEF LearntSoFar, Offered
    <3>4. QED
      BY <1>0, <1>15, <3>3, NextSentencePhase
  <2>2. CASE ~ (sent < N)
    <3>1. Past /\ Past' /\ UNCHANGED << sent, idx, res >> /\ cli' # "compare"
      BY <1>15, <2>2 DEF NextSentence, Past
    <3>2. LearntSoFar' /\ Offered'
      BY <1>0, <1>1, <3>1, OfferedKept DEF LearntSoFar
    <3>3. QED
      BY <1>0, <1>15, <3>2, NextSentencePhase
  <2>3. QED
    BY <2>1, <2>2
<1>16. QED
  BY <1>3, <1>4, <1>5, <1>6, <1>7, <1>8, <1>9, <1>10, <1>11, <1>12, <1>13, <1>14, <1>15
     DEF Client

LEMMA ServerWhole ==
  ASSUME IInv, Uncut, MaxRead >= 4, Server
  PROVE  Phase' /\ Offered' /\ LearntSoFar'
<1>0. TypeOK /\ Phase /\ Offered /\ LearntSoFar
  BY DEF IInv
<1>1. UNCHANGED << cli, sent, idx, res, delivery >>
  BY DEF Server, clientVars, GetCommand, GetSource, GetPrefix, SendAnswer, GetReference,
         SendLearnt
<1>2. Offered'
  <2>1. Answer' = Answer
    BY <1>1 DEF Answer, Wanted
  <2>2. QED
    BY <1>0, <1>1, <2>1 DEF Offered
<1>3. ASSUME UNCHANGED << source, weights, decodedBy >>, Past' <=> Past PROVE LearntSoFar'
  BY <1>0, <1>1, <1>3 DEF LearntSoFar
<1>4. CASE GetCommand
  BY <1>0, <1>2, <1>3, <1>4, GetCommandPhase DEF GetCommand
<1>5. CASE GetSource
  <2>1. ~ Past /\ ~ Past' /\ source' \in {0, sent} /\ decodedBy' = weights /\ weights' = weights
    BY <1>0, <1>5, GetSourcePhase DEF GetSource
  <2>2. Learning => Len(weights) = sent - 1 /\ \A s \in DOMAIN weights : weights[s] = << s, s >>
    BY <1>0, <2>1 DEF LearntSoFar
  <2>3. ASSUME Learning, source' > 0 PROVE Len(decodedBy') = source' - 1
    <3>1. source' = sent
      BY <2>1, <2>3
    <3>2. QED
      BY <2>1, <2>2, <2>3, <3>1
  <2>4. LearntSoFar'
    BY <1>1, <2>1, <2>2, <2>3 DEF LearntSoFar
  <2>5. QED
    BY <1>0, <1>2, <1>5, <2>4, GetSourcePhase
<1>6. CASE GetPrefix
  BY <1>0, <1>2, <1>3, <1>6, GetPrefixPhase DEF GetPrefix
<1>7. CASE SendAnswer
  BY <1>0, <1>2, <1>3, <1>7, SendAnswerPhase DEF SendAnswer
<1>8. CASE GetReference
  <2>1. /\ ~ Past /\ Past' /\ source = sent /\ UNCHANGED << source, decodedBy >>
        /\ weights' = IF Learning THEN Append(weights, << sent, sent >>) ELSE weights
    BY <1>0, <1>8, GetReferencePhase DEF GetReference
  <2>2. ASSUME Learning PROVE LearntSoFar'
    <3>1. weights \in Seq((-1 .. N) \X (0 .. N)) /\ << sent, sent >> \in (-1 .. N) \X (0 .. N)
      BY <1>0, SessionAssumption DEF TypeOK
    <3>2. Len(weights) = sent - 1 /\ \A s \in DOMAIN weights : weights[s] = << s, s >>
      BY <1>0, <2>1, <2>2 DEF LearntSoFar
    <3>3. /\ weights' = Append(weights, << sent, sent >>)
          /\ Len(weights') = sent
          /\ \A s \in 1 .. sent - 1 : weights'[s] = weights[s]
          /\ weights'[sent] = << sent, sent >>
      BY <1>0, <2>1, <2>2, <3>1, <3>2, AppendProperties, Texts
    <3>4. DOMAIN weights = 1 .. sent - 1 /\ DOMAIN weights' = 1 .. sent
      BY <1>0, <3>1, <3>2, <3>3, LenProperties, AppendProperties
    <3>5. \A s \in DOMAIN weights' : weights'[s] = << s, s >>
      BY <1>0, <3>2, <3>3, <3>4, Texts
    <3>6. QED
      BY <1>0, <1>1, <2>1, <3>3, <3>5 DEF LearntSoFar
  <2>3. ASSUME ~ Learning PROVE LearntSoFar'
    BY <2>3 DEF LearntSoFar
  <2>4. QED
    BY <1>0, <1>2, <1>8, <2>2, <2>3, GetReferencePhase
<1>9. CASE SendLearnt
  BY <1>0, <1>2, <1>3, <1>9, SendLearntPhase DEF SendLearnt
<1>10. QED
  BY <1>4, <1>5, <1>6, <1>7, <1>8, <1>9 DEF Server

LEMMA StepWhole == MaxRead >= 4 /\ IInv /\ [Next]_vars => IInv'
<1> SUFFICES ASSUME MaxRead >= 4, IInv, [Next]_vars PROVE IInv'
  OBVIOUS
<1>1. TypeOK'
  BY StepTyped DEF IInv
<1>2. delivery' = delivery
  BY DEF Next, Client, Server, Finished, vars, clientVars, serverVars, NewSentence, StartedOK,
         SendSource, Ask, AskedOK, SendPrefix, GetAnswer, Compare, SendUpdate, UpdatedOK,
         SendReference, LearntOK, NextSentence, GetCommand, GetSource, GetPrefix, SendAnswer,
         GetReference, SendLearnt
<1>3. CASE UNCHANGED vars
  BY <1>1, <1>3
     DEF IInv, vars, Uncut, Phase, Offered, LearntSoFar, Past, Opened, Asking, Updating, Updated,
         Idle, Alone, Answered, Lost, Request, SourceText, ReferenceText, Wanted, Answer
<1>4. ASSUME Uncut', Client \/ Server PROVE Phase' /\ Offered' /\ LearntSoFar'
  <2>1. Uncut
    BY <1>2, <1>4 DEF Uncut
  <2>2. QED
    BY <1>4, <2>1, ClientWhole, ServerWhole
<1>5. CASE Client \/ Server
  BY <1>1, <1>4, <1>5 DEF IInv
<1>6. QED
  BY <1>3, <1>5 DEF Next, Finished

LEMMA WholeInvariant == ASSUME MaxRead >= 4 PROVE Spec => []IInv
<1>1. MaxRead >= 4 /\ IInv /\ [Next]_vars => IInv'
  BY StepWhole
<1>2. QED
  BY <1>1, InitWhole, PTL DEF Spec

(* If a read can take the longest pair of messages, then, while none is    *)
(* cut, the answer the client compares with its reference is the one for   *)
(* the sentence and the prefix at hand: an ok and an answer read at once   *)
(* leave it without an answer, never with an old one.                      *)
THEOREM AnswersAlwaysMatch == ASSUME MaxRead >= 4 PROVE Spec => []AnswersMatch
<1>1. IInv => AnswersMatch
  <2> SUFFICES ASSUME IInv, delivery # "any", cli = "compare", res # << >>,
                      NEW i \in DOMAIN res
               PROVE  /\ res[i].kind = "answer"
                      /\ res[i].about = << sent >> \o IF idx = 0 THEN NoPrefix ELSE << sent, idx >>
    BY DEF AnswersMatch
  <2>1. TypeOK /\ Uncut
    BY SessionAssumption DEF IInv, TypeOK, Uncut
  <2>2. res = Answer
    BY <2>1 DEF IInv, Offered
  <2> DEFINE about == << sent >> \o Wanted
  <2>3. about \in Seq(Int)
    BY <2>1, Texts, Sendable DEF Kinds
  <2>4. res = Message("answer", about) /\ "answer" \in Kinds
    BY <2>2 DEF Answer, Kinds
  <2> HIDE DEF about
  <2>5. /\ DOMAIN Message("answer", about) = 1 .. Len(Message("answer", about))
        /\ \A j \in 1 .. Len(Message("answer", about)) :
             /\ Message("answer", about)[j].kind = "answer"
             /\ Message("answer", about)[j].about = about
    BY <2>3, <2>4, MessagePieces
  <2>6. res[i].kind = "answer" /\ res[i].about = about
    BY <2>4, <2>5
  <2>7. QED
    BY <2>6 DEF about, Wanted
<1>2. QED
  BY <1>1, WholeInvariant, PTL

(* While no message is cut, learning and decoding alternate: the n-best    *)
(* list of a sentence meets the reference of the same sentence, and the    *)
(* next sentence is decoded with the weights learnt from all before it.    *)
THEOREM AlwaysLearnsBeforeNext == ASSUME MaxRead >= 4 PROVE Spec => []LearnsBeforeNext
<1>1. IInv => LearnsBeforeNext
  BY SessionAssumption DEF IInv, TypeOK, Uncut, LearnsBeforeNext, LearntSoFar
<1>2. QED
  BY <1>1, WholeInvariant, PTL

(* When each read returns one message, and no source and no reference is   *)
(* empty, client and server never both wait.                               *)
THEOREM NeverBothWait ==
  ASSUME MaxRead >= 4, EmptySource = {}, \A s \in 1 .. N : RefLen[s] > 0
  PROVE  Spec => []NotStuck
<1>1. IInv => NotStuck
  <2> SUFFICES ASSUME IInv, delivery = "message", ClientWaits, ServerWaits,
                      toClient = << >>, toServer = << >>
               PROVE  FALSE
    BY DEF NotStuck, NeverStuck
  <2>1. TypeOK /\ Phase
    BY DEF IInv, Uncut
  <2>2. /\ OK # << >> /\ Answer # << >> /\ Request # << >>
        /\ \A k \in Kinds : Command(k) # << >>
        /\ Message("typed", << sent, idx >>) # << >> /\ ReferenceText # << >>
    BY <2>1, Texts DEF Whole
  <2>3. \A k \in Kinds : SourceText \o Command(k) # << >>
    BY <2>1, Texts, Joined
  <2>4. OK \o Answer # << >>
    BY <2>1, Texts, Joined
  <2>5. Request \in {Command(k) : k \in Kinds}
    BY DEF Request, Kinds
  <2>6. QED
    BY <2>1, <2>2, <2>3, <2>4, <2>5
       DEF ClientWaits, ServerWaits, Phase, Opened, Asking, Updating, Updated, Alone, Answered,
           Idle, Lost, Kinds
<1>2. QED
  BY <1>1, WholeInvariant, PTL

-------------------------------------------------------------------------
(* The session implements the dialogue.                                    *)
OfferSeen == IF res = << >> THEN << 0, 0 >> ELSE << res[1].about[1], res[1].about[3] >>

LEMMA AnswerSeen ==
  ASSUME TypeOK
  PROVE  Answer # << >> /\ Answer[1].about[1] = sent /\ Answer[1].about[3] = idx
<1> DEFINE one == << sent >>
           about == one \o Wanted
<1>1. sent \in Int /\ Wanted \in Nat \X Nat /\ Wanted[2] = idx
  BY Texts DEF Wanted, NoPrefix
<1>2. one \in Seq(Int) /\ Len(one) = 1 /\ one[1] = sent
  BY <1>1, OneIn, Zenon
<1>3. Wanted \in Seq(Int) /\ Len(Wanted) = 2
  <2>1. PICK a \in Int, b \in Int : Wanted = << a, b >>
    BY <1>1
  <2>2. QED
    BY <2>1, TwoIn
<1> HIDE DEF one
<1>4. /\ about \in Seq(Int)
      /\ \A i \in 1 .. Len(one) + Len(Wanted) :
           about[i] = IF i <= Len(one) THEN one[i] ELSE Wanted[i - Len(one)]
  BY <1>2, <1>3, ConcatProperties
<1>5. about[1] = sent /\ about[3] = idx
  <2>1. Len(one) + Len(Wanted) = 3
    BY <1>2, <1>3
  <2>2. about[1] = one[1]
    BY <1>2, <1>4, <2>1
  <2>3. about[3] = Wanted[2]
    <3>1. 3 \in 1 .. Len(one) + Len(Wanted) /\ ~ (3 <= Len(one)) /\ 3 - Len(one) = 2
      BY <1>2, <2>1
    <3>2. about[3] = Wanted[3 - Len(one)]
      BY <1>4, <3>1
    <3>3. QED
      BY <3>1, <3>2
  <2>4. QED
    BY <1>1, <1>2, <2>2, <2>3
<1>6. Answer = Message("answer", about) /\ "answer" \in Kinds
  BY DEF Answer, Kinds, one
<1> HIDE DEF about
<1>7. Answer[1].about = about
  BY <1>4, <1>6, AboutIs
<1>8. Answer # << >>
  BY Texts DEF Whole
<1>9. QED
  BY <1>5, <1>7, <1>8

LEMMA ClientSeen ==
  ASSUME IInv, Uncut, MaxRead >= 4, Client
  PROVE  D!Next \/ UNCHANGED << sent, idx, res, weights >>
<1>0. TypeOK /\ Phase /\ Offered /\ LearntSoFar
  BY DEF IInv
<1>1. weights' = weights
  BY DEF Client, serverVars, NewSentence, StartedOK, SendSource, Ask, AskedOK, SendPrefix,
         GetAnswer, Compare, SendUpdate, UpdatedOK, SendReference, LearntOK, NextSentence
<1>2. CASE GetAnswer
  <2>1. /\ idx < RefLen[sent] /\ res' = Answer /\ UNCHANGED << sent, idx >>
    BY <1>0, <1>2, GetAnswerPhase DEF GetAnswer
  <2>2. OfferSeen' = << sent, idx >>
    BY <1>0, <2>1, AnswerSeen DEF OfferSeen
  <2>3. D!Offer
    BY <1>1, <2>1, <2>2 DEF D!Offer, OfferSeen
  <2>4. QED
    BY <2>3 DEF D!Next
<1>3. CASE Compare
  <2>1. /\ idx < RefLen[sent] /\ UNCHANGED << sent, res >>
    BY <1>0, <1>3, ComparePhase DEF Compare
  <2>2. PICK i \in 0 .. RefLen[sent] - idx : (res = << >> => i = 0) /\ idx' = idx + i + 1
    BY <1>3 DEF Compare
  <2>3. RefLen[sent] \in Int /\ idx \in Int /\ sent \in Int /\ sent >= 1
    BY <1>0, SessionAssumption DEF TypeOK
  <2>4. CASE res = << >>
    <3>1. OfferSeen = << 0, 0 >> /\ idx' \in idx + 1 .. idx + 1
      BY <2>2, <2>3, <2>4 DEF OfferSeen
    <3>2. D!Type
      BY <1>1, <2>1, <3>1 DEF D!Type, D!NoOffer, OfferSeen
    <3>3. QED
      BY <3>2 DEF D!Next
  <2>5. CASE res # << >>
    <3>1. res = Answer
      BY <1>0, <1>3, <2>5 DEF Offered, Compare
    <3>2. OfferSeen = << sent, idx >> /\ OfferSeen # << 0, 0 >>
      BY <1>0, <2>3, <3>1, AnswerSeen DEF OfferSeen
    <3>3. idx' \in idx + 1 .. RefLen[sent] + 1
      BY <2>2, <2>3
    <3>4. D!Type
      BY <1>1, <2>1, <3>2, <3>3 DEF D!Type, D!NoOffer, OfferSeen
    <3>5. QED
      BY <3>4 DEF D!Next
  <2>6. QED
    BY <2>4, <2>5
<1>4. CASE NextSentence
  <2>1. CASE sent < N
    <3>1. /\ sent' = sent + 1 /\ idx' = 0 /\ res' = << >> /\ Past /\ idx >= RefLen[sent]
      BY <1>0, <1>4, <2>1, NextSentencePhase DEF NextSentence, Past
    <3>2. Learning => Len(weights) = sent
      BY <1>0, <3>1 DEF LearntSoFar
    <3>3. D!Turn
      BY <1>1, <2>1, <3>1, <3>2 DEF D!Turn, D!NoOffer
    <3>4. QED
      BY <3>3 DEF D!Next
  <2>2. CASE ~ (sent < N)
    BY <1>1, <1>4, <2>2 DEF NextSentence
  <2>3. QED
    BY <2>1, <2>2
<1>5. QED
  BY <1>1, <1>2, <1>3, <1>4
     DEF Client, NewSentence, StartedOK, SendSource, Ask, AskedOK, SendPrefix, SendUpdate,
         UpdatedOK, SendReference, LearntOK

LEMMA ServerSeen ==
  ASSUME IInv, Uncut, MaxRead >= 4, Server
  PROVE  D!Next \/ UNCHANGED << sent, idx, res, weights >>
<1>0. TypeOK /\ Phase /\ LearntSoFar
  BY DEF IInv
<1>1. UNCHANGED << sent, idx, res >>
  BY DEF Server, clientVars, GetCommand, GetSource, GetPrefix, SendAnswer, GetReference,
         SendLearnt
<1>2. ASSUME GetReference, Learning PROVE D!Next
  <2>1. /\ ~ Past /\ idx >= RefLen[sent] /\ weights' = Append(weights, << sent, sent >>)
    BY <1>0, <1>2, GetReferencePhase
  <2>2. Len(weights) = sent - 1
    BY <1>0, <1>2, <2>1 DEF LearntSoFar
  <2>3. weights \in Seq((-1 .. N) \X (0 .. N)) /\ << sent, sent >> \in (-1 .. N) \X (0 .. N)
    BY <1>0, SessionAssumption DEF TypeOK
  <2>4. Len(weights') = Len(weights) + 1
    BY <2>1, <2>3, AppendProperties
  <2>5. Len(weights') = sent
    BY <1>0, <2>2, <2>4, Texts
  <2>6. D!Learn
    BY <1>1, <1>2, <2>1, <2>2, <2>5 DEF D!Learn
  <2>7. QED
    BY <2>6 DEF D!Next
<1>3. CASE GetReference /\ ~ Learning
  BY <1>1, <1>3 DEF GetReference
<1>4. QED
  BY <1>1, <1>2, <1>3 DEF Server, GetCommand, GetSource, GetPrefix, SendAnswer, SendLearnt

(* While no message is cut, the two programs together carry out the        *)
(* dialogue they are for: offers for what is typed, typing, learning from  *)
(* each sentence once, and only then the next.                             *)
THEOREM ImplementsDialogue == ASSUME MaxRead >= 4 PROVE Spec => KeepsDialogue
<1>1. Init => D!Init
  BY DEF Init, D!Init, D!NoOffer
<1>2. IInv /\ [Next]_vars => [delivery # "any" => D!Next]_<< sent, idx, res, weights >>
  <2> SUFFICES ASSUME IInv, [Next]_vars, delivery # "any"
               PROVE  D!Next \/ UNCHANGED << sent, idx, res, weights >>
    OBVIOUS
  <2>1. Uncut
    BY SessionAssumption DEF IInv, TypeOK, Uncut
  <2>2. CASE UNCHANGED vars
    BY <2>2 DEF vars
  <2>3. CASE Client \/ Server
    BY <2>1, <2>3, ClientSeen, ServerSeen
  <2>4. QED
    BY <2>2, <2>3 DEF Next, Finished
<1>3. QED
  BY <1>1, <1>2, WholeInvariant, PTL DEF Spec, KeepsDialogue

=========================================================================
