------------------------------ MODULE PassDatabase ------------------------------
(* Comp 206/ASS3: passweb with its arguments or its menu, loginsim which runs
   passweb -verify, and login, all over the one file password.csv. Nothing locks
   the file. A change loads all of it, opens it for writing, which empties it at
   once, and leaves the new rows in the buffer of a stream that nobody closes:
   they reach the file when the process exits.

   A text is a sequence of numbers, the parts between its commas; merging a user
   into a row joins the texts with commas, splitting a row cuts it at its first
   two. The cipher adds SHIFT to what is written, as the code does to every
   character. The tables are short enough for one buffer. *)
EXTENDS Integers, Sequences, SequencesExt, FiniteSets

CONSTANTS Session,      \* processes, of passweb, loginsim or login
          Name, Password, Type,  \* texts a person may type
          Size,         \* rows of the arrays: 150
          Shift,        \* up to this row add moves the empty marker: 49
          Linked,       \* rows that login takes into its list: 50
          MaxCalls      \* bound: operations in all

(* Even the empty text is one part. *)
ASSUME PassAssumption ==
    /\ (Size \in Nat) /\ Shift \in 1..(Size - 1) /\ Linked \in 1..Size
    /\ \A text \in Name \cup Password \cup Type : text \in Seq(Int) /\ text # <<>>

VARIABLES passwords,    \* the rows of password.csv, or Absent
          session,      \* what each process is doing
          calls,        \* operations begun
          plain,        \* history: no text with a comma was written
          calm,         \* history: no change was lost or done to an old table
          truth         \* history: the users there should be as long as it is calm

passVars == <<passwords, session, calls, plain, calm, truth>>

(* No file: no row is without parts. *)
Absent == <<<<>>>>
User == [name : Name, pass : Password, type : Type]
JunkUser == [name |-> <<0>>, pass |-> <<0>>, type |-> <<0>>]
NoUser == [name |-> <<>>, pass |-> <<>>, type |-> <<>>]
Operation == [kind : {"add"}, old : {NoUser}, new : User]
             \cup [kind : {"del", "verify"}, old : User, new : {NoUser}]
             \cup [kind : {"edit"}, old : User, new : User]
--------------------------------------------------------------------------------
SHIFT == 1
EncryptRow(row) == [i \in DOMAIN row |-> row[i] + SHIFT]
DecryptRow(row) == [i \in DOMAIN row |-> row[i] - SHIFT]

MergeLine(user) == user.name \o user.pass \o user.type
SplitLine(row) ==
    [name |-> <<row[1]>>, pass |-> <<row[2]>>, type |-> SubSeq(row, 3, Len(row))]

ToMatrix(users) == [i \in DOMAIN users |-> EncryptRow(MergeLine(users[i]))]
ToUserList(matrix) == [i \in DOMAIN matrix |-> SplitLine(DecryptRow(matrix[i]))]

Named(users, name) == {i \in DOMAIN users : users[i].name = name}
Matching(users, user) == {i \in Named(users, user.name) : users[i].pass = user.pass}
First(indices) == CHOOSE i \in indices : \A j \in indices : i <= j

(* The tables that add may leave. From row Shift on the empty marker is gone, and
   the rows that follow are whatever the stack holds until one looks empty; a
   full table is left as it is, the new user is written behind the array. *)
Added(users, user) ==
    LET junk == IF Len(users) < Shift THEN {0} ELSE 0..(Size - Len(users) - 1)
    IN IF Len(users) = Size THEN {users}
       ELSE {Append(users, user) \o [i \in 1..n |-> JunkUser] : n \in junk}

(* del moves up no row behind the first Shift. *)
Removed(users, k) ==
    IF Len(users) <= Shift THEN RemoveAt(users, k)
    ELSE [i \in DOMAIN users |-> IF i \in k..Shift THEN users[i + 1] ELSE users[i]]

AddUnseen(users, op) == Added(users, op.new)
AddResults(users, op) ==
    IF Named(users, op.new.name) # {} THEN {} ELSE Added(users, op.new)

DelResults(users, op) ==
    LET found == Named(users, op.old.name)
    IN IF found = {} THEN {users} ELSE {Removed(users, First(found))}

EditResults(users, op) ==
    LET found == Matching(users, op.old)
    IN IF Named(users, op.new.name) # {} THEN {}
       ELSE IF found = {} THEN {users} ELSE {[users EXCEPT ![First(found)] = op.new]}

(* The tables an operation may write; it writes none when it refuses or verifies. *)
Results(users, op) ==
    CASE op.kind = "add" -> AddResults(users, op)
      [] op.kind = "del" -> DelResults(users, op)
      [] op.kind = "edit" -> EditResults(users, op)
      [] op.kind = "verify" -> {}

Valid(users, user) == Matching(users, user) # {}
--------------------------------------------------------------------------------
NoOperation == [kind |-> "none", old |-> NoUser, new |-> NoUser]
Off == [pc |-> "off", menu |-> FALSE, op |-> NoOperation, users |-> <<>>,
        out |-> <<>>, stale |-> FALSE, tries |-> 0]

PassInit ==
    /\ passwords = Absent
    /\ session = [p \in Session |-> Off]
    /\ calls = 0
    /\ plain = TRUE
    /\ calm = TRUE
    /\ truth = {}

Unflushed(p) == session[p].out # <<>>

(* The operation, and where the process stands, of those that are given a task. *)
Begin(p, op) ==
    /\ calls < MaxCalls
    /\ calls' = calls + 1
    /\ session' = [session EXCEPT ![p].pc = "open", ![p].op = op]
    /\ UNCHANGED <<passwords, plain, calm, truth>>

(* passweb -add, -del, -edit or -verify. *)
Command(p) ==
    /\ session[p].pc = "off"
    /\ \E op \in Operation : Begin(p, op)

(* loginsim runs passweb -verify and prints what its exit status says. *)
LoginSim(p) ==
    /\ session[p].pc = "off"
    /\ \E op \in Operation : op.kind = "verify" /\ Begin(p, op)

(* passweb -menu. *)
Menu(p) ==
    /\ session[p].pc = "off"
    /\ calls < MaxCalls
    /\ session' = [session EXCEPT ![p].pc = "menu", ![p].menu = TRUE]
    /\ UNCHANGED <<passwords, calls, plain, calm, truth>>

Select(p) ==
    /\ session[p].pc = "menu"
    /\ \E op \in Operation : Begin(p, op)

LeaveMenu(p) ==
    /\ session[p].pc = "menu"
    /\ session' = [session EXCEPT ![p].pc = "exit"]
    /\ UNCHANGED <<passwords, calls, plain, calm, truth>>

(* login: the list is read once, for three tries. *)
Login(p) ==
    /\ session[p].pc = "off"
    /\ Begin(p, [NoOperation EXCEPT !.kind = "login"])

(* The loaded table is that of the file; it is out of date from the start when
   a stream that will replace it is still to be flushed. toUserList does not assign
   emptyUser: where the stack happens to hold a 1, every row looks empty. *)
Load(p) ==
    LET users == ToUserList(passwords) IN
    /\ session[p].pc = "open"
    /\ session[p].op.kind # "login"
    /\ passwords # Absent
    /\ \E seen \in {users, <<>>} :
          session' = [session EXCEPT
              ![p].pc = "change",
              ![p].users = seen,
              ![p].stale = seen # users \/ \E q \in Session : Unflushed(q)]
    /\ UNCHANGED <<passwords, calls, plain, calm, truth>>

(* The list of login: the first rows of the file. *)
LoginList(users) == IF Len(users) > Linked THEN SubSeq(users, 1, Linked) ELSE users

LoadList(p) ==
    /\ session[p].pc = "open"
    /\ session[p].op.kind = "login"
    /\ passwords # Absent
    /\ session' = [session EXCEPT ![p].pc = "try",
                                 ![p].users = LoginList(ToUserList(passwords))]
    /\ UNCHANGED <<passwords, calls, plain, calm, truth>>

(* The first fopen has failed ... *)
Missing(p) ==
    /\ session[p].pc = "open"
    /\ passwords = Absent
    /\ session' = [session EXCEPT ![p].pc = "create"]
    /\ UNCHANGED <<passwords, calls, plain, calm, truth>>

(* ... and the second empties what another process may have written meanwhile. *)
Create(p) ==
    /\ session[p].pc = "create"
    /\ passwords' = <<>>
    /\ calm' = (calm /\ passwords \in {Absent, <<>>})
    /\ session' = [session EXCEPT ![p].pc = "open"]
    /\ UNCHANGED <<calls, plain, truth>>
--------------------------------------------------------------------------------
(* What an operation should make of a set of users. *)
Promise(users, op) ==
    LET same == {u \in users : u.name = op.new.name}
        match == {u \in users : u.name = op.old.name /\ u.pass = op.old.pass}
    IN CASE op.kind = "add" -> IF same = {} THEN users \cup {op.new} ELSE users
         [] op.kind = "del" -> {u \in users : u.name # op.old.name}
         [] op.kind = "edit" ->
                IF same = {} /\ match # {} THEN (users \ match) \cup {op.new} ELSE users

HasComma(op) ==
    op.kind \in {"add", "edit"} /\ (Len(op.new.name) > 1 \/ Len(op.new.pass) > 1)

(* The operation is over, the menu goes on. *)
Returned(s) == [s EXCEPT !.pc = IF s.menu THEN "menu" ELSE "exit",
                         !.op = NoOperation, !.users = <<>>, !.stale = FALSE]

(* The tables that others have loaded are now old. *)
Outdated(p) == [q \in Session |->
    [session[q] EXCEPT !.stale = (q # p /\ session[q].pc = "change") \/ @]]

(* writeFile: the file is emptied, the rows wait in the stream. *)
Rewrite(p) ==
    LET s == session[p] IN
    /\ s.pc = "change"
    /\ \E users \in Results(s.users, s.op) :
          session' = [Outdated(p) EXCEPT
              ![p] = [Returned(s) EXCEPT !.out = Append(@, ToMatrix(users))]]
    /\ passwords' = <<>>
    /\ plain' = (plain /\ ~HasComma(s.op))
    /\ calm' = (calm /\ ~s.stale /\ ~HasComma(s.op)
                     /\ (s.op.kind = "add" => Len(s.users) < Shift))
    /\ truth' = IF calm' THEN Promise(truth, s.op) ELSE {}
    /\ UNCHANGED calls

(* "User already exist". *)
Refuse(p) ==
    LET s == session[p] IN
    /\ s.pc = "change"
    /\ s.op.kind # "verify"
    /\ Results(s.users, s.op) = {}
    /\ session' = [session EXCEPT ![p] = Returned(s)]
    /\ UNCHANGED <<passwords, calls, plain, calm, truth>>

(* verify exits, from the menu too. *)
Verify(p) ==
    LET s == session[p] IN
    /\ s.pc = "change"
    /\ s.op.kind = "verify"
    /\ session' = [session EXCEPT ![p] = [Returned(s) EXCEPT !.pc = "exit"]]
    /\ UNCHANGED <<passwords, calls, plain, calm, truth>>

(* login: a try, of three. *)
Try(p, user) ==
    LET s == session[p]
        over == Valid(s.users, user) \/ s.tries = 2
    IN /\ s.pc = "try"
       /\ session' = [session EXCEPT ![p] =
              IF over THEN [Off EXCEPT !.pc = "exit"] ELSE [s EXCEPT !.tries = @ + 1]]
       /\ UNCHANGED <<passwords, calls, plain, calm, truth>>

(* exit flushes the streams, each from the beginning of the file, in no certain
   order. Every table has Size rows, so the last one hides the others. *)
Flush(p) ==
    LET out == session[p].out IN
    /\ session[p].pc = "exit"
    /\ \E k \in DOMAIN out :
          /\ passwords' = out[k]
          /\ session' = [Outdated(p) EXCEPT ![p].out = RemoveAt(out, k)]
    /\ UNCHANGED <<calls, plain, calm, truth>>

Exit(p) ==
    /\ session[p].pc = "exit"
    /\ ~Unflushed(p)
    /\ session' = [session EXCEPT ![p] = Off]
    /\ UNCHANGED <<passwords, calls, plain, calm, truth>>

(* The process is killed, its buffers are gone. *)
Kill(p) ==
    /\ session[p].pc # "off"
    /\ calm' = (calm /\ ~Unflushed(p))
    /\ truth' = IF calm' THEN truth ELSE {}
    /\ session' = [session EXCEPT ![p] = Off]
    /\ UNCHANGED <<passwords, calls, plain>>

SessionStep(p) ==
    \/ Command(p) \/ LoginSim(p) \/ Menu(p) \/ Select(p) \/ LeaveMenu(p) \/ Login(p)
    \/ Load(p) \/ LoadList(p) \/ Missing(p) \/ Create(p) \/ Rewrite(p) \/ Refuse(p) \/ Verify(p)
    \/ Flush(p) \/ Exit(p) \/ Kill(p)
    \/ \E user \in User : Try(p, user)

PassNext == \E p \in Session : SessionStep(p)

PassSpec == PassInit /\ [][PassNext]_passVars
--------------------------------------------------------------------------------
PassTypeOK ==
    /\ passwords = Absent \/ Len(passwords) <= Size
    /\ DOMAIN session = Session
    /\ \A p \in Session :
          /\ session[p].pc \in {"off", "menu", "open", "create", "change", "try", "exit"}
          /\ Len(session[p].users) <= Size
          /\ session[p].tries \in 0..2
    /\ calls \in 0..MaxCalls
    /\ {plain, calm} \subseteq BOOLEAN

(* add and edit refuse a name that is taken, on a table that may be old by the
   time it is written. However the processes interleave, are killed or use the
   menu, and whichever table wins, no name is in the file twice, unless a text had
   a comma or the table has grown past the rows that add and del take care of. *)
NamesUnique ==
    (plain /\ passwords # Absent /\ Len(passwords) <= Shift) =>
        \A i, j \in DOMAIN passwords :
            ToUserList(passwords)[i].name = ToUserList(passwords)[j].name => i = j

(* As long as every change was made to the table as it stood, by a process that
   lived to flush it and made no other change before it did, the file holds what
   the changes one after the other make of an empty set of users: then nothing is
   lost, whoever reads or is refused in between. *)
SerialTable ==
    (calm /\ \A p \in Session : ~Unflushed(p)) =>
        truth = (IF passwords = Absent THEN {} ELSE ToSet(ToUserList(passwords)))

(* Both of these: what passweb keeps of the table while several processes run. *)
TableKept == NamesUnique /\ SerialTable
================================================================================
