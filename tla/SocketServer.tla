------------------------------ MODULE SocketServer ------------------------------
(* Comp 206/ASS2/rserver: the server takes one connection, greets it and appends
   what it receives to the file of the sender. TCP keeps the bytes in order but
   not the borders between two sends, and recv takes what is there: commands that
   were sent quickly arrive as one, whose text is all but the first two words, and
   a quit among them is not heard. client2 addresses another server. *)
EXTENDS Integers, Sequences, SequencesExt

CONSTANTS Caller,       \* processes that run client1 or client2
          Misdirected,  \* those of them that run client2
          BufferSize,   \* messages that fit into the buffer of recv
          MaxSends,     \* bound: messages of each client
          NoOne

ASSUME SocketAssumption ==
    (Misdirected \subseteq Caller) /\ (BufferSize \in Nat \ {0}) /\ NoOne \notin Caller

VARIABLES listener,     \* what the server is doing
          served,       \* the connection it has accepted
          caller,       \* what each client is doing
          stream,       \* bytes on their way from a client
          written,      \* client1.txt, line by line
          ghosts,       \* were lines written for nobody?
          sent          \* history: all a client has sent

socketVars == <<listener, served, caller, stream, written, ghosts, sent>>

SocketInit ==
    /\ listener = "socket"
    /\ served = NoOne
    /\ caller = [c \in Caller |-> "off"]
    /\ stream = [c \in Caller |-> <<>>]
    /\ written = <<>>
    /\ ghosts = FALSE
    /\ sent = [c \in Caller |-> <<>>]
--------------------------------------------------------------------------------
(* socket, bind and listen, or main returns. *)
Listen ==
    /\ listener = "socket"
    /\ listener' \in {"accept", "off"}
    /\ UNCHANGED <<served, caller, stream, written, ghosts, sent>>

Accept ==
    /\ listener = "accept"
    /\ \E c \in Caller : caller[c] = "connected" /\ served' = c
    /\ listener' = "greet"
    /\ UNCHANGED <<caller, stream, written, ghosts, sent>>

(* "Send some command:", which the client waits for. *)
Greet ==
    /\ listener = "greet"
    /\ listener' = "recv"
    /\ caller' = [caller EXCEPT ![served] = "typing"]
    /\ UNCHANGED <<served, stream, written, ghosts, sent>>

(* What splitCommand makes of a chunk of messages: the words after the first two. *)
ForUs == served \notin Misdirected
Writes(chunk) == IF ForUs THEN Append(written, chunk) ELSE written
IsQuit(chunk) == Len(chunk) = 1 /\ chunk[1].cmd = "quit"

ReceiveOnce ==
    /\ listener = "recv"
    /\ \E k \in 1..Len(stream[served]) :
          LET chunk == SubSeq(stream[served], 1, k) IN
          /\ k <= BufferSize
          /\ stream' = [stream EXCEPT ![served] = <<>>]
          /\ written' = Writes(chunk)
          /\ listener' = IF ForUs /\ IsQuit(chunk) THEN "off" ELSE "recv"
    /\ UNCHANGED <<served, caller, ghosts, sent>>

(* recv and writeCommand, for a chunk of what has arrived. *)
Receive ==
    /\ listener = "recv"
    /\ \E k \in 1..Len(stream[served]) :
          LET chunk == SubSeq(stream[served], 1, k) IN
          /\ k <= BufferSize
          /\ stream' = [stream EXCEPT ![served] = SubSeq(@, k + 1, Len(@))]
          /\ written' = Writes(chunk)
          /\ listener' = IF ForUs /\ IsQuit(chunk) THEN "off" ELSE "recv"
    /\ UNCHANGED <<served, caller, ghosts, sent>>

(* The connection is closed: recv returns nothing, for ever, and splitCommand
   looks at a name it has not assigned, which may be that of the last message. *)
ReceiveNothing ==
    /\ listener = "recv"
    /\ caller[served] = "closed"
    /\ stream[served] = <<>>
    /\ ghosts' \in {ghosts, TRUE}
    /\ UNCHANGED <<listener, served, caller, stream, written, sent>>

(* A client connects, while the first one is served too: then it waits. *)
Connect(c) ==
    /\ caller[c] = "off"
    /\ listener # "off"
    /\ listener # "socket"
    /\ caller' = [caller EXCEPT ![c] = "connected"]
    /\ UNCHANGED <<listener, served, stream, written, ghosts, sent>>

Send(c, cmd) ==
    LET message == [from |-> c, cmd |-> cmd, id |-> Len(sent[c]) + 1] IN
    /\ caller[c] = "typing"
    /\ Len(sent[c]) < MaxSends
    /\ stream' = [stream EXCEPT ![c] = Append(@, message)]
    /\ sent' = [sent EXCEPT ![c] = Append(@, message)]
    /\ caller' = IF cmd = "quit" THEN [caller EXCEPT ![c] = "closed"] ELSE caller
    /\ UNCHANGED <<listener, served, written, ghosts>>

(* The end of what is typed. *)
HangUp(c) ==
    /\ caller[c] = "typing"
    /\ caller' = [caller EXCEPT ![c] = "closed"]
    /\ UNCHANGED <<listener, served, stream, written, ghosts, sent>>

(* The server has gone, and those that waited for it get an error. *)
Reset(c) ==
    /\ listener = "off"
    /\ caller[c] = "connected"
    /\ caller' = [caller EXCEPT ![c] = "closed"]
    /\ UNCHANGED <<listener, served, stream, written, ghosts, sent>>

SocketNext ==
    \/ Listen \/ Accept \/ Greet \/ Receive \/ ReceiveNothing
    \/ \E c \in Caller : Connect(c) \/ HangUp(c) \/ Reset(c)
    \/ \E c \in Caller : \E cmd \in {"text", "quit"} : Send(c, cmd)

SocketSpec == SocketInit /\ [][SocketNext]_socketVars
--------------------------------------------------------------------------------
SocketTypeOK ==
    /\ listener \in {"socket", "accept", "greet", "recv", "off"}
    /\ served \in Caller \cup {NoOne}
    /\ caller \in [Caller -> {"off", "connected", "typing", "closed"}]
    /\ \A c \in Caller : Len(stream[c]) <= MaxSends
    /\ ghosts \in BOOLEAN

(* However the commands are cut into chunks, the file holds those of the client
   that was accepted, all of them and in order, up to what is on its way, and
   nobody else's; and the server stops at a quit with nothing left unread. *)
StreamKept ==
    /\ (served # NoOne /\ ForUs) => sent[served] = FlattenSeq(written) \o stream[served]
    /\ (served = NoOne \/ ~ForUs) => written = <<>>
    /\ (served # NoOne /\ listener = "off") =>
           Last(sent[served]).cmd = "quit" /\ stream[served] = <<>>
    /\ \A c \in Caller \ {served} : sent[c] = <<>>
================================================================================
