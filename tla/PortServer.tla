------------------------------- MODULE PortServer -------------------------------
(* Comp 206/ASS2/Server: clients append lines to port.csv; the server reads the
   file to its end, empties it, and appends each command to the file of its
   sender. client2 addresses another server. Nothing locks the port.

   A line is a record, and its id counts the lines of all clients. A text of 50
   characters or more keeps its newline, so that the client sends an empty line
   after it; for an empty line split assigns nothing, and the server compares what
   its stack holds of the line before. *)
EXTENDS Integers, Sequences, SequencesExt, FiniteSets

CONSTANTS Client,       \* processes that run client1
          Stranger,     \* processes that run client2
          MaxCommands,  \* length of the server's array: 50
          MaxLines,     \* bound: lines sent
          MaxKills      \* bound: how often the server is killed

ASSUME PortAssumption == MaxCommands \in Nat \ {0}

VARIABLES port,         \* the lines of port.csv, or NoPort
          server,       \* what the server is doing
          outbox,       \* the file of each sender
          quitting,     \* clients that have left
          lines,        \* lines sent
          kills,        \* how often the server was killed
          past          \* history: the ids of the lines that met with ... (below)

portVars == <<port, server, outbox, quitting, lines, kills, past>>

Junk == "junk"          \* the name that is left on the server's stack
Sender == {"client1", "wrongsender", Junk}
SentLine(p, cmd) == [to |-> IF p \in Client THEN "server" ELSE "otherserver",
                 from |-> IF p \in Client THEN "client1" ELSE "wrongsender",
                 cmd |-> cmd, id |-> lines + 1]
NoText == [to |-> "", from |-> Junk, cmd |-> "", id |-> 0]
NoPort == <<[NoText EXCEPT !.to = "no file"]>>
Lines == IF port = NoPort THEN <<>> ELSE port

PortInit ==
    /\ port = NoPort
    /\ server = [pc |-> "wait", commands |-> <<>>, running |-> TRUE]
    /\ outbox = [name \in Sender |-> <<>>]
    /\ quitting = {}
    /\ lines = 0
    /\ kills = 0
    /\ past = [foreign |-> {},      \* ... another server's name,
               late |-> {},         \* ... a server between its read and its clearing,
               unread |-> {},       \* ... a quit before them, or a full array,
               dropped |-> {}]      \* ... the end of the server before they were written
--------------------------------------------------------------------------------
(* sendCommands: one line typed and appended; the quit is flushed by exit. *)
SendCommand(p, cmd) ==
    /\ p \notin quitting
    /\ lines < MaxLines
    /\ port' = Lines \o IF cmd = "long" THEN <<SentLine(p, cmd), NoText>>
                                        ELSE <<SentLine(p, cmd)>>
    /\ lines' = lines + 1
    /\ quitting' = IF cmd = "quit" THEN quitting \cup {p} ELSE quitting
    /\ past' = [past EXCEPT
           !.foreign = @ \cup IF p \in Stranger THEN {lines + 1} ELSE {},
           !.late = @ \cup IF server.pc = "clear" THEN {lines + 1} ELSE {}]
    /\ UNCHANGED <<server, outbox, kills>>

(* The lines splitCommand takes for this server, when it takes those of extra. *)
ForServer(text, extra) ==
    LET taken[n \in 0..Len(text)] ==
            IF n = 0 THEN <<>>
            ELSE IF text[n].to = "server" \/ n \in extra THEN Append(taken[n - 1], text[n])
            ELSE taken[n - 1]
    IN  taken[Len(text)]

(* The lines up to the first quit; an empty line has no command. *)
UpToQuit(commands) ==
    LET quits == {i \in DOMAIN commands : commands[i].cmd = "quit"}
    IN IF quits = {} THEN commands
       ELSE SubSeq(commands, 1, CHOOSE i \in quits : \A j \in quits : i <= j)

HasQuit(commands) == \E i \in DOMAIN commands : commands[i].cmd = "quit"
Ids(commands) == {commands[i].id : i \in DOMAIN commands} \ {0}
AsMany(commands) == commands
AsFirst(commands) == SubSeq(commands, 1, MaxCommands)

(* readCommands. Commands past the end of the array are lost, if not worse. *)
ReadCommands ==
    /\ server.pc = "wait"
    /\ port # NoPort
    /\ \E extra \in SUBSET {i \in DOMAIN port : port[i] = NoText} :
          LET all == ForServer(port, extra)
              commands == UpToQuit(all)
              kept == IF Len(commands) > MaxCommands THEN AsFirst(commands) ELSE commands
          IN /\ server' = [pc |-> "clear", commands |-> kept,
                           running |-> ~HasQuit(commands)]
             /\ past' = [past EXCEPT !.unread = @ \cup (Ids(all) \ Ids(kept))]
    /\ UNCHANGED <<port, outbox, quitting, lines, kills>>

(* Without a port nothing is read, and the array is as the stack left it. *)
NoCommands ==
    /\ server.pc = "wait"
    /\ port = NoPort
    /\ \E commands \in {<<>>, <<NoText>>} :
          server' = [pc |-> "clear", commands |-> commands, running |-> TRUE]
    /\ UNCHANGED <<port, outbox, quitting, lines, kills, past>>

LeavePort ==
    /\ server.pc = "clear"
    /\ server' = [server EXCEPT !.pc = "write"]
    /\ UNCHANGED <<port, outbox, quitting, lines, kills, past>>

ClearPort ==
    /\ server.pc = "clear"
    /\ port' = <<>>
    /\ server' = [server EXCEPT !.pc = "write"]
    /\ UNCHANGED <<outbox, quitting, lines, kills, past>>

(* writeCommands, one command. *)
WriteCommand ==
    /\ server.pc = "write"
    /\ server.commands # <<>>
    /\ outbox' = [outbox EXCEPT ![Head(server.commands).from] =
                                    Append(@, Head(server.commands).id)]
    /\ server' = [server EXCEPT !.commands = Tail(@)]
    /\ UNCHANGED <<port, quitting, lines, kills, past>>

LoopOrQuit ==
    /\ server.pc = "write"
    /\ server.commands = <<>>
    /\ server' = [server EXCEPT !.pc = IF server.running THEN "wait" ELSE "off"]
    /\ UNCHANGED <<port, outbox, quitting, lines, kills, past>>

(* The server is killed, by its user or by what it writes behind its array. *)
KillServer ==
    /\ server.pc # "off"
    /\ kills < MaxKills \/ Len(server.commands) = MaxCommands
    /\ kills' = IF kills < MaxKills THEN kills + 1 ELSE kills
    /\ server' = [pc |-> "off", commands |-> <<>>, running |-> FALSE]
    /\ past' = [past EXCEPT
           !.dropped = @ \cup IF server.pc = "write" THEN Ids(server.commands) ELSE {}]
    /\ UNCHANGED <<port, outbox, quitting, lines>>

Launch ==
    /\ server.pc = "off"
    /\ server' = [pc |-> "wait", commands |-> <<>>, running |-> TRUE]
    /\ UNCHANGED <<port, outbox, quitting, lines, kills, past>>

PortNext ==
    \/ \E p \in Client \cup Stranger : \E cmd \in {"text", "long", "quit"} : SendCommand(p, cmd)
    \/ ReadCommands \/ NoCommands \/ ClearPort \/ WriteCommand \/ LoopOrQuit
    \/ KillServer \/ Launch

PortSpec == PortInit /\ [][PortNext]_portVars
--------------------------------------------------------------------------------
PortTypeOK ==
    /\ server.pc \in {"wait", "clear", "write", "off"}
    /\ Len(server.commands) <= MaxCommands
    /\ DOMAIN outbox = Sender
    /\ lines \in 0..MaxLines
    /\ kills \in 0..MaxKills

Increasing(ids) == \A i, j \in DOMAIN ids : i < j => ids[i] < ids[j]

(* The port is emptied before a command is written, so that a server that dies and
   is launched again never writes a line twice, and the lines keep
   their order, across rounds and restarts. What client2 sends is written nowhere. *)
AtMostOnce ==
    /\ Increasing(outbox["client1"])
    /\ outbox["wrongsender"] = <<>>

(* A line to the server is lost for one of three reasons only: it came between the
   read and the clearing, it stood behind a quit or beyond the array, or the
   server was killed between the clearing and the writing. *)
Accounted ==
    LET waiting == {Lines[i].id : i \in DOMAIN Lines}
        written == ToSet(outbox["client1"])
        held == IF server.pc = "write" THEN Ids(server.commands) ELSE {}
    IN (1..lines) \ past.foreign \subseteq
           UNION {waiting, held, written, past.late, past.unread, past.dropped}

(* Both of these: no line is written twice, none is lost for another reason. *)
LinesKept == AtMostOnce /\ Accounted
================================================================================
