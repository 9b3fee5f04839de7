----------------------------- MODULE UpperServer -----------------------------
(***************************************************************************)
(* LAB6/EX3: a client sends lines to a server through one FIFO, and reads  *)
(* the upper-case answer from another one.  The client opens and closes    *)
(* both FIFOs for every line, the server opens each of them once.          *)
(*                                                                         *)
(* A string is what precedes a NUL; of the k-th line only its length       *)
(* matters, so its letters are all k.  The upper-case letter of k is       *)
(* MaxLines + k.                                                           *)
(***************************************************************************)
EXTENDS Integers, Sequences, SequencesExt

CONSTANTS
  TAM,      \* size of the buffers (256 in the code)
  MaxLines  \* bound on the number of lines

ASSUME TAMAssumption      == TAM \in Nat /\ TAM > 1
ASSUME MaxLinesAssumption == MaxLines \in Nat \ {0}

VARIABLES
  spc,       \* where the server is
  cpc,       \* where the client is
  exists,    \* the FIFOs exist
  toServer,  \* bytes in fifoClienteParaServidor
  toClient,  \* bytes in fifoServidorParaCliente
  received,  \* what the server has read
  line,      \* number of lines sent by the client
  length,    \* length of the last one
  lidos,     \* what the client has read
  full       \* a line of TAM - 1 letters has been sent, a history

serverVars == <<spc, received>>
clientVars == <<cpc, line, length, lidos, full>>
fifoVars == <<exists, toServer, toClient>>
upperVars == <<serverVars, clientVars, fifoVars>>

NUL == 0

\* The string in a buffer, and the bytes that write sends for it.
StringIn(bytes) ==
  SubSeq(bytes, 1, SelectInSeq(bytes \o <<NUL>>, LAMBDA b : b = NUL) - 1)
Bytes(string)   == Append(string, NUL)
Letters(k, n)   == [j \in 1..n |-> k]
toupper(b)      == IF b \in 1..MaxLines THEN MaxLines + b ELSE b
toUppercase(string) == [j \in DOMAIN string |-> toupper(string[j])]

\* read(fd, buffer, TAM - 1) returns what is there, up to TAM - 1 bytes.
Count(bytes) == IF Len(bytes) < TAM THEN Len(bytes) ELSE TAM - 1
Taken(bytes) == SubSeq(bytes, 1, Count(bytes))
Left(bytes)  == SubSeq(bytes, Count(bytes) + 1, Len(bytes))

UpperInit ==
  /\ spc = "mkfifo"
  /\ cpc = "prompt"
  /\ exists \in BOOLEAN
  /\ toServer = <<>>
  /\ toClient = <<>>
  /\ received = <<>>
  /\ line = 0
  /\ length = 0
  /\ lidos = <<>>
  /\ full = FALSE
----------------------------------------------------------------------------
Mkfifo ==
  /\ spc = "mkfifo"
  /\ exists' = TRUE
  /\ spc' = "openRead"
  /\ UNCHANGED <<received, clientVars, toServer, toClient>>

\* The client types a line, which fgets cuts after TAM - 1 characters.
Type ==
  /\ cpc = "prompt" /\ line < MaxLines
  /\ \E n \in 0..(TAM - 1) : length' = n
  /\ line' = line + 1
  /\ full' = (full \/ length' = TAM - 1)
  /\ cpc' = "openSend"
  /\ UNCHANGED <<serverVars, lidos, fifoVars>>

\* "sair", or the end of the input.
Quit ==
  /\ cpc = "prompt"
  /\ cpc' = "done"
  /\ UNCHANGED <<serverVars, line, length, lidos, full, fifoVars>>

\* No FIFO to open: perror, and the next line.
OpenSendFails ==
  /\ cpc = "openSend" /\ ~exists
  /\ cpc' = "prompt"
  /\ UNCHANGED <<serverVars, line, length, lidos, full, fifoVars>>

\* open() of a FIFO returns when its other end is open or being opened: the
\* first time both processes meet in it, later the server is there already.
MeetToSend ==
  /\ cpc = "openSend" /\ spc = "openRead"
  /\ cpc' = "send"
  /\ spc' = "openWrite"
  /\ UNCHANGED <<received, line, length, lidos, full, fifoVars>>

OpenSend ==
  /\ cpc = "openSend" /\ spc \in {"openWrite", "read", "reply"}
  /\ cpc' = "send"
  /\ UNCHANGED <<serverVars, line, length, lidos, full, fifoVars>>

\* write and close.  If the server has died meanwhile, SIGPIPE.
Send ==
  /\ cpc = "send"
  /\ IF spc = "dead"
     THEN cpc' = "dead" /\ UNCHANGED toServer
     ELSE /\ toServer' = toServer \o Bytes(Letters(line, length))
          /\ cpc' = "openRecv"
  /\ UNCHANGED <<serverVars, line, length, lidos, full, exists, toClient>>

MeetToReceive ==
  /\ cpc = "openRecv" /\ spc = "openWrite"
  /\ cpc' = "recv"
  /\ spc' = "read"
  /\ UNCHANGED <<received, line, length, lidos, full, fifoVars>>

OpenReceive ==
  /\ cpc = "openRecv" /\ spc \in {"read", "reply"}
  /\ cpc' = "recv"
  /\ UNCHANGED <<serverVars, line, length, lidos, full, fifoVars>>

\* Mutant: the first letter only.
EchoFirst(bytes) ==
  LET s == StringIn(bytes)
  IN Bytes([j \in DOMAIN s |-> IF j = 1 THEN toupper(s[j]) ELSE s[j]])

\* Mutant: strlen(buffer) bytes, which are none for an empty line.
EchoWithoutNUL(bytes) == toUppercase(StringIn(bytes))

\* strlen(buffer) + 1 bytes.
Echo(bytes) == Bytes(toUppercase(StringIn(bytes)))

\* The server waits for bytes (spinning on reads of 0) and answers.
ServerRead ==
  /\ spc = "read" /\ toServer # <<>>
  /\ received' = Taken(toServer)
  /\ toServer' = Left(toServer)
  /\ spc' = "reply"
  /\ UNCHANGED <<clientVars, exists, toClient>>

\* Without a reader the write raises SIGPIPE.
Reply ==
  /\ spc = "reply"
  /\ IF cpc \in {"recv", "close"}
     THEN toClient' = toClient \o Echo(received) /\ spc' = "read"
     ELSE UNCHANGED toClient /\ spc' = "dead"
  /\ UNCHANGED <<received, clientVars, exists, toServer>>

\* read blocks while the server has the FIFO open.
Receive ==
  /\ cpc = "recv" /\ (toClient # <<>> \/ spc = "dead")
  /\ lidos' = Taken(toClient)
  /\ toClient' = Left(toClient)
  /\ cpc' = "close"
  /\ UNCHANGED <<serverVars, line, length, full, exists, toServer>>

\* The answer, if there is one, is printed.
Close ==
  /\ cpc = "close"
  /\ cpc' = "prompt"
  /\ UNCHANGED <<serverVars, line, length, lidos, full, fifoVars>>

ServerStep == Mkfifo \/ ServerRead \/ Reply
ClientStep ==
  OpenSendFails \/ MeetToSend \/ OpenSend \/ Send \/ MeetToReceive \/ OpenReceive
    \/ Receive \/ Close

UpperNext == ServerStep \/ ClientStep \/ Type \/ Quit
----------------------------------------------------------------------------
UpperTypeOK ==
  /\ spc \in {"mkfifo", "openRead", "openWrite", "read", "reply", "dead"}
  /\ cpc \in {"prompt", "openSend", "send", "openRecv", "recv", "close", "done", "dead"}
  /\ exists \in BOOLEAN
  /\ {toServer, toClient, received, lidos} \subseteq Seq(0..(2 * MaxLines))
  /\ line \in 0..MaxLines
  /\ length \in 0..(TAM - 1)
  /\ full \in BOOLEAN

\* What the client prints is the line it sent last in upper case, whole and
\* without a byte of an earlier answer, as long as every line and its NUL fit
\* into one read of the server.  A line of TAM - 1 letters is answered twice,
\* and the rest of these answers is taken for the answer to the next line: from
\* then on the client may print nothing, or an earlier line, but it never mixes
\* two lines, and never prints what has not been through toUppercase.
AnswersTheLine ==
  cpc = "close" /\ lidos # <<>> =>
    IF ~full THEN StringIn(lidos) = Letters(MaxLines + line, length)
    ELSE \E k \in 1..line, n \in 0..(TAM - 1) : StringIn(lidos) = Letters(MaxLines + k, n)

\* The first line is always answered: server and client wait for each other.
\* A later one is answered unless the server writes before the client has
\* opened the FIFO again, and dies.
LinesAreAnswered ==
  (cpc = "openSend" /\ exists)
    ~> (cpc = "close" /\ lidos # <<>>) \/ (spc = "dead" /\ line > 1)
============================================================================
