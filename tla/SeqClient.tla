----------------------------- MODULE SeqClient -----------------------------
(***************************************************************************)
(* tools/alsaseq.py, the ALSA sequencer client on bare ioctls: the search  *)
(* for the FM-1's port, one ioctl per step while devices come and go, and  *)
(* how recv takes apart what read() delivers.                              *)
(*                                                                         *)
(* A client's name is modelled by which of the searched names it contains; *)
(* find_midi_port asks for no port name, so ports have none.  A byte of    *)
(* the event stream is the event it comes from and its place in it.        *)
(*                                                                         *)
(* The kernel pads the data of an event so that whole headers would fill   *)
(* it; recv expects the padding that send writes, which is shorter.  From  *)
(* the first event for which the two differ on, recv takes padding and     *)
(* kernel pointers for headers.  What it returns then is left open.        *)
(*                                                                         *)
(* External: the kernel's registry, what the two query ioctls return, and  *)
(* the events that read() delivers, whole, as many as it likes.            *)
(***************************************************************************)
EXTENDS Integers, Sequences, FiniteSets, SequencesExt, FiniteSetsExt

CONSTANTS
  Ids,       \* client numbers of the kernel
  NNames,    \* names that are searched, one after the other; 4 in the code
  Entries,   \* what a client may look like: [names, ports]
  Streams,   \* event streams that may be waiting: [sysex, var, len] each
  Header,    \* bytes of an event without its data; 28 in the code
  Unit,      \* recv expects data padded to a multiple of this; 4 in the code
  Strays     \* what a read may append to the result once recv is out of step

ASSUME SeqAssumption ==
  /\ Ids \subseteq Nat /\ NNames \in Nat \ {0}
  /\ \A e \in Entries : e.names \subseteq 1 .. NNames /\ e.ports \subseteq Nat

ASSUME RecvAssumption ==
  /\ Streams \subseteq Seq([sysex : BOOLEAN, var : BOOLEAN, len : Nat])
  /\ Header \in Nat \ {0} /\ Unit \in Nat \ {0} /\ Header % Unit = 0
  /\ Strays \subseteq Seq(Seq(Nat \X Nat)) /\ <<>> \in Strays

Absent == [names |-> {}, ports |-> {}]   \* its port query fails like a missing one's

VARIABLES
  registry,            \* the kernel's clients
  steady, seen,        \* history of a search: clients that have not changed,
                       \* names that each number has had
  pc,                  \* "client", "port": the next ioctl; "done"
  name,                \* which name is searched
  ci, cnames, pi,      \* the query buffers: client, what its name holds, port
  found,               \* the result; <<>> is None
  sent, given,         \* events of the stream; how many were read so far
  rbuf, out, got       \* read and not parsed; this recv's result; earlier ones'

kernel == <<registry, steady, seen>>
search == <<pc, name, ci, cnames, pi, found>>
recvVars == <<sent, given, rbuf, out, got>>

----------------------------------------------------------------------------
(* find_midi_port and find_port *)

\* Clients that QUERY_NEXT_CLIENT can return, ports QUERY_NEXT_PORT can
\* (mutant: the query starts anew in each round)
NextClientsAnew == {c \in Ids : registry[c] # Absent}
NextClients == {c \in Ids : c > ci /\ registry[c] # Absent}
NextPorts == {p \in registry[ci].ports : p > pi}

\* Mutant: the last name is not the last.
NoneFoundOnward ==
  /\ name' = name + 1 /\ pc' = IF name <= NNames THEN "client" ELSE "done"
  /\ ci' = -1 /\ UNCHANGED <<cnames, pi, found>>

\* find_port returns None; find_midi_port goes on to the next name.
NoneFound ==
  /\ name' = IF name < NNames THEN name + 1 ELSE name
  /\ pc' = IF name < NNames THEN "client" ELSE "done"
  /\ ci' = -1 /\ UNCHANGED <<cnames, pi, found>>

\* What the name that the query returned contains (mutant: that of the first)
CNameOnce(c) == IF ci = -1 THEN registry[c].names ELSE cnames
CName(c) == registry[c].names

AskClient ==
  /\ pc = "client"
  /\ IF NextClients = {} THEN NoneFound
     ELSE /\ ci' = Min(NextClients) /\ cnames' = CName(Min(NextClients)) /\ pi' = -1
          /\ pc' = "port" /\ UNCHANGED <<name, found>>
  /\ UNCHANGED <<kernel, recvVars>>

\* The inner loop breaks (mutant: it returns).
NoPortGivesUp == NoneFound
NoPort == pc' = "client" /\ UNCHANGED <<name, ci, cnames, pi, found>>

\* The client may have gone, or its number may be another's by now.
AskPort ==
  /\ pc = "port"
  /\ IF NextPorts = {} THEN NoPort
     ELSE IF name \in cnames
          THEN pc' = "done" /\ found' = <<ci, Min(NextPorts)>> /\ UNCHANGED <<name, ci, cnames, pi>>
          ELSE pi' = Min(NextPorts) /\ UNCHANGED <<pc, name, ci, cnames, found>>
  /\ UNCHANGED <<kernel, recvVars>>

\* A client comes or goes (external).
Replug(c, e) ==
  /\ pc # "done" /\ (registry[c] = Absent <=> e # Absent)
  /\ registry' = [registry EXCEPT ![c] = e]
  /\ steady' = steady \ {c} /\ seen' = [seen EXCEPT ![c] = @ \cup e.names]
  /\ UNCHANGED <<search, recvVars>>

----------------------------------------------------------------------------
(* recv *)

Padding(n) == (-n) % Unit
CellPadding(n) == (-n) % Header

\* The bytes of event i as the kernel writes them: header, data, padding
Wire(i) ==
  [k \in 1 .. IF sent[i].var THEN Header + sent[i].len + CellPadding(sent[i].len) ELSE Header |->
     <<i, k>>]
Stream(n) == FlattenSeq([i \in 1 .. n |-> Wire(i)])

\* Its data
Data(i) == [k \in 1 .. sent[i].len |-> <<i, Header + k>>]

\* Mutant: the padding is left in the buffer.
TotalUnpadded(e) == Header + e.len

Total(e) == IF e.var THEN Header + e.len + Padding(e.len) ELSE Header

\* A buffer that does not begin with a header
OutOfStep(buf) == buf # <<>> /\ buf[1][2] # 1

\* The inner loop over a buffer: what it appends to out, and what stays.
\* Out of step it stops here; how recv goes on is up to Read.
Parse(buf) ==
  LET parse[b \in {SubSeq(buf, k, Len(buf)) : k \in 1 .. Len(buf) + 1}] ==
        IF Len(b) < Header \/ OutOfStep(b) THEN [out |-> <<>>, rest |-> b]
        ELSE LET e == sent[b[1][1]] IN
             IF Len(b) < Total(e) THEN [out |-> <<>>, rest |-> b]
             ELSE LET after == parse[SubSeq(b, Total(e) + 1, Len(b))] IN
                  [after EXCEPT !.out =
                     (IF e.var /\ e.sysex THEN <<SubSeq(b, Header + 1, Header + e.len)>>
                      ELSE <<>>) \o @]
  IN parse[buf]

\* A read returns some events.  Out of step, with enough bytes for a header,
\* recv may append anything; rbuf keeps what it had when it lost step.
Read(n) ==
  /\ given + n <= Len(sent) /\ given' = given + n
  /\ LET p == Parse(rbuf \o SubSeq(Stream(given + n), Len(Stream(given)) + 1,
                                  Len(Stream(given + n)))) IN
     /\ rbuf' = p.rest
     /\ \E stray \in Strays :
          /\ stray = <<>> \/ (OutOfStep(p.rest) /\ Len(p.rest) >= Header)
          /\ out' = out \o p.out \o stray
  /\ UNCHANGED <<kernel, search, sent, got>>

\* The time is over; the next recv starts with what was left in rbuf.
Return ==
  /\ got' = got \o out /\ out' = <<>>
  /\ UNCHANGED <<kernel, search, sent, given, rbuf>>

----------------------------------------------------------------------------
(* A client either searches, or receives. *)

Init ==
  /\ ci = -1 /\ cnames = {} /\ pi = -1 /\ name = 1 /\ found = <<>>
  /\ given = 0 /\ rbuf = <<>> /\ out = <<>> /\ got = <<>>
  /\ \/ sent = <<>> /\ pc = "client" /\ registry \in [Ids -> Entries \cup {Absent}]
     \/ sent \in Streams /\ pc = "done" /\ registry = [c \in Ids |-> Absent]
  /\ steady = Ids /\ seen = [c \in Ids |-> registry[c].names]

SearchStep == AskClient \/ AskPort
RecvStep == Return \/ \E n \in 1 .. Len(sent) : Read(n)
Next == SearchStep \/ RecvStep \/ \E c \in Ids, e \in Entries \cup {Absent} : Replug(c, e)

seqVars == <<kernel, search, recvVars>>
Spec == Init /\ [][Next]_seqVars /\ WF_seqVars(SearchStep)

----------------------------------------------------------------------------
(* Properties *)

\* Type invariant
SeqTypeOK ==
  /\ registry \in [Ids -> Entries \cup {Absent}]
  /\ steady \subseteq Ids /\ seen \in [Ids -> SUBSET (1 .. NNames)]
  /\ pc \in {"client", "port", "done"} /\ name \in 1 .. NNames
  /\ ci \in Ids \cup {-1} /\ cnames \subseteq 1 .. NNames /\ pi \in Int
  /\ found \in {<<>>} \cup (Ids \X Nat)
  /\ given \in 0 .. Len(sent) /\ rbuf \in Seq((1 .. Len(sent)) \X Nat)

Fits(c, k) == k \in registry[c].names /\ registry[c].ports # {}

(***************************************************************************)
(* An FM-1 that was there all the time is not missed, whatever else comes  *)
(* and goes between two ioctls; and if nothing changed, the result is its  *)
(* first port, an earlier name going before a lower client number.         *)
(***************************************************************************)
NotMissed ==
  pc = "done" /\ sent = <<>> =>
    /\ found = <<>> => \A c \in steady, k \in 1 .. NNames : ~Fits(c, k)
    /\ steady = Ids /\ found # <<>> =>
         /\ Fits(found[1], name) /\ found[2] = Min(registry[found[1]].ports)
         /\ \A c \in Ids, k \in 1 .. NNames :
              Fits(c, k) => k > name \/ (k = name /\ c >= found[1])

(***************************************************************************)
(* The number that is returned has belonged, during the search, to a       *)
(* client with the name: it is never that of a bystander whose turn came   *)
(* after an FM-1's.                                                        *)
(***************************************************************************)
FoundHadTheName == found # <<>> => name \in seen[found[1]]

(***************************************************************************)
(* The search ends even if clients come and go for ever.                   *)
(***************************************************************************)
SearchEnds == <>(pc = "done")

\* Events whose padding recv takes off as the kernel wrote it
Fitting(i) == sent[i].var => CellPadding(sent[i].len) = Padding(sent[i].len)

\* Events that were read up to the first that is not of this kind, included
InStep == {i \in 1 .. given : \A j \in 1 .. i - 1 : Fitting(j)}

(***************************************************************************)
(* However many events a read delivers, and wherever a recv ran out of     *)
(* time, the SysEx events up to the first one with other padding than recv *)
(* expects are returned once, in order and byte for byte, that one too;    *)
(* and without such an event, nothing else.                                *)
(***************************************************************************)
Reassembled ==
  LET wanted == FlattenSeq([i \in 1 .. Cardinality(InStep) |->
                  IF sent[i].var /\ sent[i].sysex THEN <<Data(i)>> ELSE <<>>])
  IN /\ IsPrefix(wanted, got \o out)
     /\ (\A i \in 1 .. given : Fitting(i)) => got \o out = wanted
=============================================================================
