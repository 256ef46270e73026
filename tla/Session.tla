---------------------------- MODULE Session ----------------------------
(***************************************************************************)
(* A session: the client that simulates a user (cat-client) and the main   *)
(* loop of the server (CAT-Server.cpp), joined by one TCP connection.      *)
(*                                                                         *)
(* A message is written with one write and read with one read, and nothing *)
(* in it says where it ends.  So a stream is a sequence of pieces and a    *)
(* read returns some of the pieces that have arrived: delivery, which the  *)
(* network chooses, says which.  Every read and every write is a step of   *)
(* its own.                                                                *)
(***************************************************************************)
EXTENDS Integers, Sequences, FiniteSetsExt

CONSTANTS
  N,            \* number of sentences in the input file
  RefLen,       \* length of each sentence's reference translation
  EmptySource,  \* the sentences whose source line is empty
  Long,         \* kinds of messages that do not fit in one piece
  MaxRead,      \* pieces that fit in the buffer of a read (5000 bytes)
  Deliveries,   \* what the network may do. "message": a read returns one
                \* message; "merge": one or more; "any": any part of what
                \* has arrived
  Learning      \* onlineMethod is not "none"

ASSUME SessionAssumption ==
  /\ N \in Nat \ {0} /\ RefLen \in [1 .. N -> Nat] /\ EmptySource \subseteq 1 .. N
  /\ MaxRead \in Nat \ {0} /\ Deliveries \subseteq {"message", "merge", "any"}
  /\ Learning \in BOOLEAN

VARIABLES
  delivery,            \* what the network does in this session
  toServer, toClient,  \* what has been written and not yet read
  cli,       \* where the client is
  sent,      \* number of the sentence it is at
  idx,       \* how much of the reference is typed
  res,       \* the answer it works with
  srv,       \* where the server is
  source,    \* what m_manager, task and searchGraph were made from: a
             \* sentence, 0 for anything else, -1 while they are NULL
  typed,     \* the prefix to answer
  weights,   \* what online learning has learnt: pairs <<source, reference>>
  decodedBy  \* the weights that source was decoded with

vars == << delivery, toServer, toClient, cli, sent, idx, res, srv, source, typed, weights, decodedBy >>

(* What no step of the server changes, and what no step of the client does. *)
clientVars == << delivery, cli, sent, idx, res >>
serverVars == << delivery, srv, source, typed, weights, decodedBy >>

-------------------------------------------------------------------------
(* Messages.  What a text says is abstracted to what it is about: source   *)
(* and reference of a sentence, a prefix of a sentence's reference, the    *)
(* answer to a prefix for a source.                                        *)
Message(kind, about) ==
  [part \in 1 .. IF kind \in Long THEN 2 ELSE 1 |->
     [kind |-> kind, about |-> about, part |-> part]]

Command(kind) == Message(kind, << >>)
OK == Command("ok")

(* What a received text is about: the number 0 stands for anything that is *)
(* not one whole message of the kind expected.                             *)
Source(text)    == IF \E s \in 1 .. N : text = Message("source", <<s>>)
                     THEN text[1].about[1] ELSE 0
Reference(text) == IF \E s \in 1 .. N : text = Message("reference", <<s>>)
                     THEN text[1].about[1] ELSE 0
NoPrefix        == << 0, 0 >>
Garbled         == << 0, 1 >>
Typed(text)     == IF \E s \in 1 .. N : \E x \in 1 .. RefLen[s] :
                        text = Message("typed", <<s, x>>)
                     THEN text[1].about ELSE Garbled

(* How many pieces a read may return. *)
Ends(stream) ==
  { n \in DOMAIN stream : n = Len(stream) \/ stream[n + 1].part = 1 }
ReadSizes(stream) ==
  LET whole == Ends(stream)
      sizes == CASE delivery = "message" -> {Min(whole)}
                 [] delivery = "merge"   -> whole
                 [] delivery = "any"     -> DOMAIN stream
  IN  { Min({n, MaxRead}) : n \in sizes }

(* A read waits for something to arrive, but returns the empty text when   *)
(* the other side has closed the connection.                               *)
ServerReads(text) ==
  \/ /\ toServer # << >>
     /\ \E n \in ReadSizes(toServer) :
          /\ text = SubSeq(toServer, 1, n)
          /\ toServer' = SubSeq(toServer, n + 1, Len(toServer))
  \/ toServer = << >> /\ cli = "done" /\ text = << >> /\ UNCHANGED toServer

ClientReads(text) ==
  \/ /\ toClient # << >>
     /\ \E n \in ReadSizes(toClient) :
          /\ text = SubSeq(toClient, 1, n)
          /\ toClient' = SubSeq(toClient, n + 1, Len(toClient))
  \/ toClient = << >> /\ srv = "ended" /\ text = << >> /\ UNCHANGED toClient

(* The texts a read could return now. *)
Prefixes(stream) == { SubSeq(stream, 1, n) : n \in 0 .. Len(stream) }

ServerWrites(msg) == toClient' = toClient \o msg
ClientWrites(msg) == toServer' = toServer \o msg

Init ==
  /\ delivery \in Deliveries
  /\ toServer = << >> /\ toClient = << >>
  /\ cli = "start" /\ sent = 1 /\ idx = 0 /\ res = << >>
  /\ srv = "command" /\ source = -1 /\ typed = NoPrefix
  /\ weights = << >> /\ decodedBy = << >>

-------------------------------------------------------------------------
(* The client: process, for one sentence after the other.                  *)

NewSentence ==
  /\ cli = "start"
  /\ ClientWrites(Command("new_sentence"))
  /\ cli' = "started"
  /\ UNCHANGED << toClient, sent, idx, res, serverVars >>

StartedOK ==
  /\ cli = "started"
  /\ \E text \in Prefixes(toClient) :
       /\ ClientReads(text)
       /\ cli' = IF text = OK THEN "send_source" ELSE "send_update"
  /\ UNCHANGED << toServer, sent, idx, res, serverVars >>

(* An empty line puts nothing on the wire. *)
SendSource ==
  /\ cli = "send_source"
  /\ ClientWrites(IF sent \in EmptySource THEN << >> ELSE Message("source", <<sent>>))
  /\ cli' = "ask"
  /\ UNCHANGED << toClient, sent, idx, res, serverVars >>

(* The loop of process; at its end the sentence is given up for learning. *)
Ask ==
  /\ cli = "ask" /\ idx < RefLen[sent]
  /\ ClientWrites(Command(IF idx > 0 THEN "prefix" ELSE "no-prefix"))
  /\ cli' = "asked"
  /\ UNCHANGED << toClient, sent, idx, res, serverVars >>

AskedOK ==
  /\ cli = "asked"
  /\ \E text \in Prefixes(toClient) :
       /\ ClientReads(text)
       /\ cli' = IF text # OK THEN "compare"
                 ELSE IF idx > 0 THEN "send_prefix" ELSE "await_answer"
  /\ UNCHANGED << toServer, sent, idx, res, serverVars >>

SendPrefix ==
  /\ cli = "send_prefix"
  /\ ClientWrites(Message("typed", <<sent, idx>>))
  /\ cli' = "await_answer"
  /\ UNCHANGED << toClient, sent, idx, res, serverVars >>

GetAnswer ==
  /\ cli = "await_answer"
  /\ \E text \in Prefixes(toClient) : ClientReads(text) /\ res' = text
  /\ cli' = "compare"
  /\ UNCHANGED << toServer, sent, idx, serverVars >>

(* Mutant of Compare: no letter is typed. *)
CompareOnly ==
  /\ cli = "compare"
  /\ \E i \in 0 .. RefLen[sent] - idx :
       /\ res = << >> => i = 0
       /\ idx' = idx + i
  /\ cli' = "ask"
  /\ UNCHANGED << toServer, toClient, sent, res, serverVars >>

(* Accept the beginning of the answer that agrees with the reference, then *)
(* type one letter.                                                        *)
Compare ==
  /\ cli = "compare"
  /\ \E i \in 0 .. RefLen[sent] - idx :
       /\ res = << >> => i = 0
       /\ idx' = idx + i + 1
  /\ cli' = "ask"
  /\ UNCHANGED << toServer, toClient, sent, res, serverVars >>

(* Mutant of SendUpdate: a letter early. *)
SendUpdateEarly ==
  /\ cli = "send_update" \/ (cli = "ask" /\ idx + 1 >= RefLen[sent])
  /\ ClientWrites(Command("update"))
  /\ cli' = "updated"
  /\ UNCHANGED << toClient, sent, idx, res, serverVars >>

SendUpdate ==
  /\ cli = "send_update" \/ (cli = "ask" /\ idx >= RefLen[sent])
  /\ ClientWrites(Command("update"))
  /\ cli' = "updated"
  /\ UNCHANGED << toClient, sent, idx, res, serverVars >>

UpdatedOK ==
  /\ cli = "updated"
  /\ \E text \in Prefixes(toClient) :
       /\ ClientReads(text)
       /\ cli' = IF text = OK THEN "send_reference" ELSE "next"
  /\ UNCHANGED << toServer, sent, idx, res, serverVars >>

(* Mutant of SendReference: the acknowledgement is not waited for. *)
SendReferenceOnly ==
  /\ cli = "send_reference"
  /\ ClientWrites(IF RefLen[sent] = 0 THEN << >> ELSE Message("reference", <<sent>>))
  /\ cli' = "next"
  /\ UNCHANGED << toClient, sent, idx, res, serverVars >>

SendReference ==
  /\ cli = "send_reference"
  /\ ClientWrites(IF RefLen[sent] = 0 THEN << >> ELSE Message("reference", <<sent>>))
  /\ cli' = "await_learnt"
  /\ UNCHANGED << toClient, sent, idx, res, serverVars >>

LearntOK ==
  /\ cli = "await_learnt"
  /\ \E text \in Prefixes(toClient) : ClientReads(text)
  /\ cli' = "next"
  /\ UNCHANGED << toServer, sent, idx, res, serverVars >>

(* Mutant of NextSentence: the last answer is kept. *)
NextSentenceKeeps ==
  /\ cli = "next"
  /\ IF sent < N
       THEN sent' = sent + 1 /\ idx' = 0 /\ cli' = "start" /\ UNCHANGED << res, toServer >>
       ELSE ClientWrites(Command("close")) /\ cli' = "done" /\ UNCHANGED << sent, idx, res >>
  /\ UNCHANGED << toClient, serverVars >>

NextSentence ==
  /\ cli = "next"
  /\ IF sent < N
       THEN /\ sent' = sent + 1 /\ idx' = 0 /\ res' = << >>
            /\ cli' = "start"
            /\ UNCHANGED toServer
       ELSE /\ ClientWrites(Command("close"))
            /\ cli' = "done"
            /\ UNCHANGED << sent, idx, res >>
  /\ UNCHANGED << toClient, serverVars >>

Client ==
  \/ NewSentence \/ StartedOK \/ SendSource \/ Ask \/ AskedOK \/ SendPrefix
  \/ GetAnswer \/ Compare \/ SendUpdate \/ UpdatedOK \/ SendReference
  \/ LearntOK \/ NextSentence

-------------------------------------------------------------------------
(* Mutant of Replies: the source is not read. *)
RepliesNoSource == [k \in {"new_sentence", "prefix", "no-prefix", "update"} |->
              CASE k = "new_sentence" -> "command"
                [] k = "prefix"       -> "prefix"
                [] k = "no-prefix"    -> "answer"
                [] k = "update"       -> "reference"]

(* The server's main loop.  Every known command but close is acknowledged  *)
(* before anything else is read; others are ignored.                       *)
Replies == [k \in {"new_sentence", "prefix", "no-prefix", "update"} |->
              CASE k = "new_sentence" -> "source"
                [] k = "prefix"       -> "prefix"
                [] k = "no-prefix"    -> "answer"
                [] k = "update"       -> "reference"]

GetCommand ==
  /\ srv = "command"
  /\ \E text \in Prefixes(toServer) :
       /\ ServerReads(text)
       /\ \/ \E k \in DOMAIN Replies :
               /\ text = Command(k)
               /\ ServerWrites(OK)
               /\ srv' = Replies[k]
               /\ typed' = IF k = "no-prefix" THEN NoPrefix ELSE typed
          \/ text = Command("close") /\ srv' = "ended" /\ UNCHANGED << toClient, typed >>
          \/ /\ text \notin {Command(k) : k \in DOMAIN Replies \cup {"close"}}
             /\ UNCHANGED << srv, toClient, typed >>
  /\ UNCHANGED << source, weights, decodedBy, clientVars >>

(* new_sentence: everything made for the last sentence is deleted and made *)
(* anew from what is read; decoding uses the weights as they are.          *)
GetSource ==
  /\ srv = "source"
  /\ \E text \in Prefixes(toServer) : ServerReads(text) /\ source' = Source(text)
  /\ decodedBy' = weights
  /\ srv' = "command"
  /\ UNCHANGED << toClient, typed, weights, clientVars >>

GetPrefix ==
  /\ srv = "prefix"
  /\ \E text \in Prefixes(toServer) : ServerReads(text) /\ typed' = Typed(text)
  /\ srv' = "answer"
  /\ UNCHANGED << toClient, source, weights, decodedBy, clientVars >>

(* Mutant of SendAnswer: an empty answer is written as it is. *)
SendNothing ==
  /\ srv = "answer"
  /\ srv' = "command"
  /\ UNCHANGED << toServer, toClient, source, typed, weights, decodedBy, clientVars >>

(* An empty answer is written as #EMPTY, so there is something to read. *)
SendAnswer ==
  /\ srv = "answer"
  /\ ServerWrites(Message("answer", << source >> \o typed))
  /\ srv' = "command"
  /\ UNCHANGED << toServer, source, typed, weights, decodedBy, clientVars >>

GetReference ==
  /\ srv = "reference"
  /\ \E text \in Prefixes(toServer) :
       /\ ServerReads(text)
       /\ weights' = IF Learning THEN Append(weights, << source, Reference(text) >>)
                                 ELSE weights
  /\ srv' = "learnt"
  /\ UNCHANGED << toClient, source, typed, decodedBy, clientVars >>

SendLearnt ==
  /\ srv = "learnt"
  /\ ServerWrites(OK)
  /\ srv' = "command"
  /\ UNCHANGED << toServer, source, typed, weights, decodedBy, clientVars >>

Server ==
  GetCommand \/ GetSource \/ GetPrefix \/ SendAnswer \/ GetReference \/ SendLearnt

Finished == cli = "done" /\ srv = "ended" /\ UNCHANGED vars

Next == Client \/ Server \/ Finished

(* Client and server are processes of their own; a read returns when       *)
(* something has arrived.                                                  *)
Spec     == Init /\ [][Next]_vars
FairSpec == Spec /\ WF_vars(Client) /\ WF_vars(Server)

-------------------------------------------------------------------------
Kinds  == {"new_sentence", "source", "no-prefix", "prefix", "typed", "update",
           "reference", "close", "ok", "answer"}
Pieces == [kind : Kinds, about : Seq(Int), part : {1, 2}]

TypeOK ==
  /\ delivery \in Deliveries
  /\ toServer \in Seq(Pieces) /\ toClient \in Seq(Pieces) /\ res \in Seq(Pieces)
  /\ cli \in {"start", "started", "send_source", "ask", "asked", "send_prefix",
              "await_answer", "compare", "send_update", "updated",
              "send_reference", "await_learnt", "next", "done"}
  /\ sent \in 1 .. N /\ idx \in 0 .. RefLen[sent] + 1
  /\ srv \in {"command", "source", "prefix", "answer", "reference", "learnt", "ended"}
  /\ source \in -1 .. N /\ typed \in Nat \X Nat
  /\ weights \in Seq((-1 .. N) \X (0 .. N)) /\ decodedBy \in Seq((-1 .. N) \X (0 .. N))

(* Client and server never both wait for something to read while nothing   *)
(* is on its way.                                                          *)
ClientWaits == cli \in {"started", "asked", "await_answer", "updated", "await_learnt"}
ServerWaits == srv \in {"command", "source", "prefix", "reference"}
NeverStuck  == ~(ClientWaits /\ ServerWaits /\ toClient = << >> /\ toServer = << >>)

(* They do not as long as every read returns one whole message.            *)
NotStuck == delivery = "message" => NeverStuck

(* Even when messages written back to back are read as one, the answer the *)
(* client compares with the reference was computed on the search graph of  *)
(* the sentence at hand for what is typed of it now: no answer is late,    *)
(* and none belongs to another sentence.                                   *)
AnswersMatch ==
  delivery # "any" /\ cli = "compare" /\ res # << >> =>
    \A i \in DOMAIN res :
      /\ res[i].kind = "answer"
      /\ res[i].about = << sent >> \o IF idx = 0 THEN NoPrefix ELSE << sent, idx >>

(* However the stream is cut into messages, the server uses its objects    *)
(* (m_manager, task, searchGraph) only after it has made them: all of them *)
(* are NULL until a first source was read.                                 *)
ObjectsExist == srv \in {"prefix", "answer", "reference", "learnt"} => source # -1

(* As long as no message is cut the session carries out the dialogue it is *)
(* for: offers and typing, then learning from the right reference on the   *)
(* n-best list of the right sentence, before the next one is decoded.      *)
D == INSTANCE Dialogue WITH
       sentence <- sent, length <- idx,
       offer    <- IF res = << >> THEN << 0, 0 >>
                   ELSE << res[1].about[1], res[1].about[3] >>,
       learnt   <- Len(weights)
KeepsDialogue ==
  D!Init /\ [][delivery # "any" => D!Next]_<< sent, idx, res, weights >>

(* Online learning and decoding alternate: a sentence is decoded with the  *)
(* weights learnt from all sentences before it, and a reference is learnt  *)
(* from on the hypotheses of its own sentence.                             *)
LearnsBeforeNext ==
  Learning /\ delivery # "any" =>
    /\ \A s \in DOMAIN weights : weights[s] = << s, s >>
    /\ source > 0 => Len(decodedBy) = source - 1

(* The client comes to the end of its input, so that it can write the      *)
(* totals, and the server, having been told to close, ends too.            *)
Completes ==
  delivery = "message" => <>(cli = "done" /\ srv = "ended" /\ D!Finished)
=========================================================================
