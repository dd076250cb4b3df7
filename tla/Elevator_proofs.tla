---------------------------- MODULE Elevator_proofs ----------------------------
(***************************************************************************)
(* The elevator of Comp 409/Assignment 4/src for any number of persons,    *)
(* floors and trips: QueueInv, RequestInv and the refinement of Lift.      *)
(*                                                                         *)
(* Ind is the inductive invariant. Its parts say what every channel of the *)
(* pool carries, where the engine's errand is, what the doors and the      *)
(* person who is told its floor may do meanwhile, and, for each person,    *)
(* the one place its request is in. The lemmas named ...Step show that one *)
(* action keeps Ind; a step of a thread touches few keys of the pool, and  *)
(* the lemmas named ...Frame carry over the parts about the others.        *)
(***************************************************************************)
EXTENDS Elevator, FiniteSetTheorems, TLAPS

(* A message is on its way from s to d. *)
Has(s, d) == <<s, d>> \in DOMAIN messages

(* The channels of the simulation and what each carries. *)
Carries(pair, msg) ==
    \/ \E p \in Person, d \in Buttons \cup {TheElevator} : pair = <<Passenger(p), d>> /\ msg = TRUE
    \/ \E b \in Buttons, p \in Person : pair = <<b, TheElevator>> /\ msg = <<p, b[2]>>
    \/ \E f \in Floor : pair = <<TheElevator, Door(f)>> /\ msg \in BOOLEAN
    \/ \E p \in Person : pair = <<TheElevator, Passenger(p)>> /\ msg \in Floor
    \/ pair \in {<<TheElevator, Engine>>, <<Engine, TheElevator>>} /\ msg \in Floor

ChannelInv == \A pair \in DOMAIN messages : Carries(pair, messages[pair])

(* The types of the variables: the second half of TypeOK. *)
VarTypes ==
    /\ pc \in [Person -> {"home", "called", "enter", "inside", "riding", "leave", "out", "over"}]
    /\ position \in [Person -> Floor]
    /\ destination \in [Person -> Floor \cup {None}]
    /\ tripCount \in [Person -> 0..Trips]
    /\ serving \in {"wait", "started", "serve", "answer", "close"}
    /\ currentFloor \in Floor /\ request \in Floor \cup {None} /\ target \in Floor \cup {None}
    /\ queue \in Seq(Floor) /\ served \in Nat
    /\ personsForFloor \in [Floor -> Seq(Person)]
    /\ door \in [Floor -> {"closed", "opening", "open", "closing"}]
    /\ ended \subseteq Service \cup {Passenger(p) : p \in Person}

(* A person on its way still has a trip to make, and knows where it rides to. *)
TripAt(p) ==
    /\ pc[p] \notin {"home", "over"} => tripCount[p] # 0
    /\ pc[p] = "riding" => destination[p] \in Floor

TripInv == \A p \in Person : TripAt(p)

(* The engine rests. *)
Resting == target = None /\ ~Has(TheElevator, Engine) /\ ~Has(Engine, TheElevator)
(* The engine has one errand, to this floor: told, on its way, or arrived. *)
Sent(floor) ==
    \/ target = floor /\ ~Has(TheElevator, Engine) /\ ~Has(Engine, TheElevator)
    \/ target = None /\ Has(TheElevator, Engine) /\ ~Has(Engine, TheElevator) /\ messages[<<TheElevator, Engine>>] = floor
    \/ target = None /\ ~Has(TheElevator, Engine) /\ Has(Engine, TheElevator) /\ messages[<<Engine, TheElevator>>] = floor

(* A floor is queued once. While the elevator waits, the engine has exactly one
   errand, to the head of the queue, and none when that is empty; for the first
   request it has the errand before the floor is queued; while a floor is served
   it rests, and the floor is the head of the queue. Every floor with persons on
   its list is in the queue, or about to be. *)
ErrandInv ==
    /\ \A j, k \in 1..Len(queue) : queue[j] = queue[k] => j = k
    /\ serving = "started" => queue = <<>> /\ request \in Floor /\ Sent(request)
    /\ serving # "started" => request = None
    /\ serving = "wait" => (queue = <<>> => Resting) /\ (queue # <<>> => Sent(queue[1]))
    /\ serving \in {"serve", "answer", "close"} => queue # <<>> /\ currentFloor = queue[1] /\ Resting
    /\ \A f \in Floor : personsForFloor[f] # <<>> => f = request \/ \E k \in 1..Len(queue) : queue[k] = f

Up == door[currentFloor] \in {"opening", "open"}

(* Only the door of the floor that is served is ever open or told anything; a
   message to it says what it has not done yet: to open while the floor is
   served, to shut afterwards. While a person answers the door stays open. *)
DoorInv ==
    /\ \A f \in Floor : (f # currentFloor \/ serving \in {"wait", "started"}) =>
          door[f] \in {"closing", "closed"} /\ ~Has(TheElevator, Door(f))
    /\ serving = "serve" => (Up <=> ~Has(TheElevator, Door(currentFloor)))
    /\ serving = "answer" => Up /\ ~Has(TheElevator, Door(currentFloor))
    /\ serving = "close" => (Up <=> Has(TheElevator, Door(currentFloor)))
    /\ Has(TheElevator, Door(currentFloor)) => messages[<<TheElevator, Door(currentFloor)>>] = (serving = "serve")

(* The elevator waits for p to answer. *)
Attended(p) == serving = "answer" /\ served < Len(Present) /\ Present[served + 1] = p

(* How many of the persons on the list have been told. *)
ServeInv ==
    /\ serving \in {"serve", "answer", "close"} => served <= Len(Present)
    /\ serving = "answer" => served < Len(Present)
    /\ serving = "close" => served = Len(Present)

(* The elevator tells one person at a time. Only that one has a message from it,
   moves in or out, or owes it an answer, and one after the other; and it is told
   at the floor it wants. *)
HandAt(p) ==
    /\ \/ pc[p] \in {"enter", "leave"}
       \/ Has(TheElevator, Passenger(p))
       \/ Has(Passenger(p), TheElevator)
       => Attended(p)
    /\ pc[p] \in {"enter", "leave"} =>
        /\ position[p] = currentFloor
        /\ ~Has(TheElevator, Passenger(p)) /\ ~Has(Passenger(p), TheElevator)
    /\ Has(Passenger(p), TheElevator) => pc[p] \in {"inside", "out"}
    /\ Has(TheElevator, Passenger(p)) => Wanted(p) = currentFloor

HandInv == \A p \in Person : HandAt(p)

(* A person who has asked and waits to be told. *)
Waits(p) == pc[p] \in {"called", "riding"}
(* The button passes on the request of p. *)
Pressed(p, b) == Has(b, TheElevator) /\ messages[<<b, TheElevator>>] = <<p, b[2]>>
(* The k-th entry of the list of floor f is p, who is still to be told. *)
Entry(p, f, k) ==
    /\ k \in 1..Len(personsForFloor[f]) /\ personsForFloor[f][k] = p
    /\ ~(serving \in {"serve", "answer", "close"} /\ f = currentFloor /\ k <= Told)

(* Where a request can be: nowhere there, or there and once. *)
NoAsk(p)   == \A b \in Buttons : ~Has(Passenger(p), b)
NoPress(p) == \A b \in Buttons : ~Pressed(p, b)
NoEntry(p) == \A f \in Floor, k \in Nat : ~Entry(p, f, k)
NoAnswer(p) == ~Has(TheElevator, Passenger(p))

OneAsk(p, b) == Has(Passenger(p), b) /\ \A c \in Buttons : Has(Passenger(p), c) => c = b
OnePress(p, b) == Pressed(p, b) /\ \A c \in Buttons : Pressed(p, c) => c = b
OneEntry(p, f, k) == Entry(p, f, k) /\ \A g \in Floor, j \in Nat : Entry(p, g, j) => g = f /\ j = k

(* The request of a waiting person is in one place: with the button, on its way
   from the button to the elevator, on the list of the floor it wants, or answered
   by a message to the person. A person who does not wait has none. *)
Idle(p) == ~Waits(p) /\ NoAsk(p) /\ NoPress(p) /\ NoEntry(p) /\ NoAnswer(p)
Asked(p) == Waits(p) /\ NoPress(p) /\ NoEntry(p) /\ NoAnswer(p) /\ \E b \in Buttons : b[2] = Wanted(p) /\ OneAsk(p, b)
Called(p) == Waits(p) /\ NoAsk(p) /\ NoEntry(p) /\ NoAnswer(p) /\ \E b \in Buttons : b[2] = Wanted(p) /\ OnePress(p, b)
Noted(p) == Waits(p) /\ NoAsk(p) /\ NoPress(p) /\ NoAnswer(p) /\ \E k \in Nat : OneEntry(p, Wanted(p), k)
Answer(p) == Waits(p) /\ NoAsk(p) /\ NoPress(p) /\ NoEntry(p) /\ ~NoAnswer(p)

Place(p) == Idle(p) \/ Asked(p) \/ Called(p) \/ Noted(p) \/ Answer(p)

TokenInv == \A p \in Person : Place(p)

(* The inductive invariant. *)
Ind == VarTypes /\ ChannelInv /\ TripInv /\ ErrandInv /\ DoorInv /\ ServeInv /\ HandInv /\ TokenInv

---------------------------------------------------------------------------------

(* None is no floor. *)
LEMMA Floors == Floor \subseteq Nat /\ 0 \in Floor /\ None \notin Floor
BY SimulatorAssumption DEF Floor, None

(* The keys of the pool differ from each other. The proofs below use this fact and
   never what the keys are. *)
LEMMA Keys ==
    /\ TheElevator \notin Buttons /\ Engine \notin Buttons /\ TheElevator # Engine
    /\ \A p \in Person : Passenger(p) \notin Buttons /\ Passenger(p) # TheElevator /\ Passenger(p) # Engine
    /\ \A p, q \in Person : Passenger(p) = Passenger(q) => p = q
    /\ \A f \in Floor : Door(f) \notin Buttons /\ Door(f) # TheElevator /\ Door(f) # Engine
    /\ \A f, g \in Floor : Door(f) = Door(g) => f = g
    /\ \A p \in Person, f \in Floor : Passenger(p) # Door(f)
    /\ \A f \in Floor : /\ FloorButton(f) \in Buttons /\ FloorButton(f)[2] = f
                        /\ ElevatorButton(f) \in Buttons /\ ElevatorButton(f)[2] = f
    /\ \A b \in Buttons : b[2] \in Floor
<1> USE DEF Buttons, TheElevator, Engine, Passenger, Door, FloorButton, ElevatorButton
<1>1. TheElevator \notin Buttons /\ Engine \notin Buttons /\ TheElevator # Engine
    OBVIOUS
<1>2. \A p \in Person : Passenger(p) \notin Buttons /\ Passenger(p) # TheElevator /\ Passenger(p) # Engine
    OBVIOUS
<1>3. \A p, q \in Person : Passenger(p) = Passenger(q) => p = q
    OBVIOUS
<1>4. \A f \in Floor : Door(f) \notin Buttons /\ Door(f) # TheElevator /\ Door(f) # Engine
    OBVIOUS
<1>5. \A f, g \in Floor : Door(f) = Door(g) => f = g
    OBVIOUS
<1>6. \A p \in Person, f \in Floor : Passenger(p) # Door(f)
    OBVIOUS
<1>7. \A f \in Floor : /\ FloorButton(f) \in Buttons /\ FloorButton(f)[2] = f
                       /\ ElevatorButton(f) \in Buttons /\ ElevatorButton(f)[2] = f
    OBVIOUS
<1>8. \A b \in Buttons : b[2] \in Floor
  <2>1. \A f \in Floor : <<"floor button", f>>[2] \in Floor /\ <<"elevator button", f>>[2] \in Floor
    OBVIOUS
  <2> QED
    BY <2>1, Zenon
<1> QED
    BY <1>1, <1>2, <1>3, <1>4, <1>5, <1>6, <1>7, <1>8

(* What sendLock and waitFrom do to the pool. *)
Untouched(pair) ==
    /\ pair \in DOMAIN messages' <=> pair \in DOMAIN messages
    /\ pair \in DOMAIN messages => messages'[pair] = messages[pair]

Added(pair, msg) == pair \in DOMAIN messages' /\ messages'[pair] = msg

(* sendLock adds one message. *)
LEMMA Sending ==
    ASSUME NEW s, NEW d, NEW m, Pool!Send(s, d, m)
    PROVE  /\ Added(<<s, d>>, m)
           /\ \A pair : pair # <<s, d>> => Untouched(pair)
BY DEF Pool!Send, Pool!With, Added, Untouched

(* waitFrom removes one. *)
LEMMA Getting ==
    ASSUME NEW s, NEW d, Pool!Get(s, d)
    PROVE  /\ Has(s, d) /\ ~Has(s, d)'
           /\ \A pair : pair # <<s, d>> => Untouched(pair)
BY DEF Pool!Get, Pool!hasMessage, Pool!Without, Has, Untouched

(* A thread that reads one message and sends another. *)
LEMMA Passing ==
    ASSUME NEW s, NEW self, NEW d, NEW m, s # self, Pool!GetAndSend(s, self, d, m)
    PROVE  /\ Has(s, self) /\ ~Has(s, self)'
           /\ Added(<<self, d>>, m)
           /\ \A pair : pair # <<s, self>> /\ pair # <<self, d>> => Untouched(pair)
BY DEF Pool!GetAndSend, Pool!hasMessage, Pool!With, Pool!Without, Has, Added, Untouched

(* What the channels carry, by what a step adds to them. *)
LEMMA ChannelKept ==
    ASSUME ChannelInv,
           \A pair \in DOMAIN messages' : Untouched(pair) \/ Carries(pair, messages'[pair])
    PROVE  ChannelInv'
BY DEF ChannelInv, Untouched, Carries

(* The parts of the invariant a step does not disturb. *)
LEMMA ErrandFrame ==
    ASSUME ErrandInv, UNCHANGED <<serving, currentFloor, queue, request, personsForFloor, target>>,
           Untouched(<<TheElevator, Engine>>), Untouched(<<Engine, TheElevator>>)
    PROVE  ErrandInv'
BY DEF ErrandInv, Sent, Resting, Has, Untouched

(* As long as no door and no message to one changes. *)
LEMMA DoorFrame ==
    ASSUME DoorInv, VarTypes, UNCHANGED <<serving, currentFloor, door>>,
           \A f \in Floor : Untouched(<<TheElevator, Door(f)>>)
    PROVE  DoorInv'
BY DEF DoorInv, VarTypes, Up, Has, Untouched

(* As long as the same persons are served. *)
LEMMA ServeFrame ==
    ASSUME ServeInv, UNCHANGED <<serving, served, currentFloor, personsForFloor>>
    PROVE  ServeInv'
BY DEF ServeInv, Present

(* As long as neither p nor a message between p and the elevator changes. *)
LEMMA HandFrame ==
    ASSUME NEW p \in Person, HandAt(p),
           UNCHANGED <<serving, served, currentFloor, personsForFloor>>,
           pc'[p] = pc[p], position'[p] = position[p], destination'[p] = destination[p],
           Untouched(<<TheElevator, Passenger(p)>>), Untouched(<<Passenger(p), TheElevator>>)
    PROVE  HandAt(p)'
BY DEF HandAt, Present, Attended, Wanted, Has, Untouched

(* Who waits wants a floor. *)
LEMMA WantedFloor ==
    ASSUME VarTypes, TripInv, NEW p \in Person, Waits(p)
    PROVE  Wanted(p) \in Floor
BY DEF VarTypes, TripInv, TripAt, Waits, Wanted

(* The place of a request, when nothing it depends on changes. *)
LEMMA TokenFrame ==
    ASSUME NEW p \in Person, Place(p),
           Waits(p)' <=> Waits(p), Wanted(p)' = Wanted(p), Waits(p) => Wanted(p) \in Floor,
           \A b \in Buttons : Has(Passenger(p), b)' <=> Has(Passenger(p), b),
           \A b \in Buttons : Pressed(p, b)' <=> Pressed(p, b),
           \A f \in Floor, k \in Nat : Entry(p, f, k)' <=> Entry(p, f, k),
           Has(TheElevator, Passenger(p))' <=> Has(TheElevator, Passenger(p))
    PROVE  Place(p)'
<1>1. CASE Idle(p)
    BY <1>1 DEF Idle, Place, NoAsk, NoPress, NoEntry, NoAnswer
<1>2. CASE Asked(p)
    BY <1>2 DEF Asked, Place, OneAsk, NoPress, NoEntry, NoAnswer
<1>3. CASE Called(p)
    BY <1>3 DEF Called, Place, NoAsk, OnePress, NoEntry, NoAnswer
<1>4. CASE Noted(p)
    BY <1>4 DEF Noted, Place, NoAsk, NoPress, OneEntry, NoAnswer
<1>5. CASE Answer(p)
    BY <1>5 DEF Answer, Place, NoAsk, NoPress, NoEntry, NoAnswer
<1> QED
    BY <1>1, <1>2, <1>3, <1>4, <1>5 DEF Place

(* The steps that do not change who is to be told. *)
SameLists == UNCHANGED <<serving, served, currentFloor, personsForFloor>>

(* The same persons are still to be told. *)
LEMMA SameEntries ==
    ASSUME SameLists
    PROVE  \A p \in Person, f \in Floor, k \in Nat : Entry(p, f, k)' <=> Entry(p, f, k)
BY DEF SameLists, Entry, Told

(* As long as no message about p's request changes. *)
LEMMA TokenSame ==
    ASSUME Ind, NEW p \in Person, SameLists,
           pc'[p] = pc[p], position'[p] = position[p], destination'[p] = destination[p],
           \A b \in Buttons : Untouched(<<Passenger(p), b>>) /\ Untouched(<<b, TheElevator>>),
           Untouched(<<TheElevator, Passenger(p)>>)
    PROVE  Place(p)'
<1>1. Place(p) /\ (Waits(p)' <=> Waits(p)) /\ Wanted(p)' = Wanted(p) /\ (Waits(p) => Wanted(p) \in Floor)
    BY WantedFloor DEF Ind, TokenInv, Waits, Wanted
<1>2. \A f \in Floor, k \in Nat : Entry(p, f, k)' <=> Entry(p, f, k)
    BY SameEntries
<1>3. \A b \in Buttons : (Has(Passenger(p), b)' <=> Has(Passenger(p), b)) /\ (Pressed(p, b)' <=> Pressed(p, b))
    BY DEF Untouched, Has, Pressed
<1>4. Has(TheElevator, Passenger(p))' <=> Has(TheElevator, Passenger(p))
    BY DEF Untouched, Has
<1> QED
    BY <1>1, <1>2, <1>3, <1>4, TokenFrame

---------------------------------------------------------------------------------
(* The steps of the persons: p's own channels and variables change. *)

(* The keys a person's own step can touch. *)
Own(p) == {<<Passenger(p), d>> : d \in Buttons \cup {TheElevator}} \cup {<<TheElevator, Passenger(p)>>}

(* It suffices to show of p what a step of p changes. *)
LEMMA PersonFrame ==
    ASSUME Ind, NEW p \in Person, UNCHANGED <<elevatorVars, deviceVars>>,
           \A q \in Person : q # p => /\ pc'[q] = pc[q] /\ position'[q] = position[q]
                                      /\ destination'[q] = destination[q] /\ tripCount'[q] = tripCount[q],
           \A pair : pair \notin Own(p) => Untouched(pair),
           VarTypes', \A pair \in Own(p) \cap DOMAIN messages' : Untouched(pair) \/ Carries(pair, messages'[pair]),
           TripAt(p)', HandAt(p)', Place(p)'
    PROVE  Ind'
<1> USE DEF elevatorVars, deviceVars
<1>1. \A f \in Floor : Untouched(<<TheElevator, Door(f)>>)
    BY Keys DEF Own
<1>2. Untouched(<<TheElevator, Engine>>) /\ Untouched(<<Engine, TheElevator>>)
    BY Keys DEF Own
<1>3. \A q \in Person : q # p => Untouched(<<TheElevator, Passenger(q)>>) /\ Untouched(<<Passenger(q), TheElevator>>)
    BY Keys DEF Own
<1>4. \A b \in Buttons : /\ Untouched(<<b, TheElevator>>)
                         /\ \A q \in Person : q # p => Untouched(<<Passenger(q), b>>)
    BY Keys DEF Own
<1>5. ChannelInv'
    BY ChannelKept DEF Ind
<1>6. ErrandInv' /\ DoorInv' /\ ServeInv'
    BY <1>1, <1>2, ErrandFrame, DoorFrame, ServeFrame DEF Ind
<1>7. TripInv'
    BY DEF Ind, TripInv, TripAt
<1>8. HandInv'
    BY <1>3, HandFrame DEF Ind, HandInv
<1>9. TokenInv'
  <2>1. ASSUME NEW q \in Person, q # p PROVE Place(q)'
    BY <1>3, <1>4, <2>1, TokenSame DEF SameLists
  <2> QED
    BY <2>1 DEF TokenInv
<1> QED
    BY <1>5, <1>6, <1>7, <1>8, <1>9 DEF Ind

(* What a person's step finds and changes. *)
LEMMA Going ==
    ASSUME Ind, NEW p \in Person, NEW from, NEW to, Goto(p, from, to)
    PROVE  /\ pc[p] = from /\ pc'[p] = to
           /\ \A q \in Person : q # p => pc'[q] = pc[q]
           /\ HandAt(p) /\ Place(p) /\ TripAt(p)
           /\ UNCHANGED <<elevatorVars, deviceVars>>
BY DEF Goto, Ind, VarTypes, HandInv, TokenInv, TripInv

(* The first request of a trip goes to the button of the floor. *)
LEMMA CallStep == ASSUME Ind, NEW p \in Person, Call(p) PROVE Ind'
<1>b. PICK b \in Buttons : b = FloorButton(position[p]) /\ b[2] = position[p]
    BY Keys DEF Ind, VarTypes
<1>1. /\ pc[p] = "home" /\ pc'[p] = "called" /\ tripCount[p] # 0
      /\ \A q \in Person : q # p => pc'[q] = pc[q]
      /\ HandAt(p) /\ Place(p)
      /\ UNCHANGED <<elevatorVars, deviceVars, position, destination, tripCount, ended>>
    BY Going DEF Call
<1>2. /\ Added(<<Passenger(p), b>>, TRUE)
      /\ \A pair : pair # <<Passenger(p), b>> => Untouched(pair)
    BY <1>b, Sending DEF Call
<1>3. b \in Buttons /\ b[2] = position[p]
    BY <1>b
<1>4. VarTypes'
    BY <1>1 DEF Ind, VarTypes, Call, Goto, elevatorVars, deviceVars
<1>5. \A pair \in DOMAIN messages' : Untouched(pair) \/ Carries(pair, messages'[pair])
    BY <1>2, <1>3 DEF Carries, Added
<1>6. TripAt(p)'
    BY <1>1 DEF TripAt
<1>7. Untouched(<<TheElevator, Passenger(p)>>) /\ Untouched(<<Passenger(p), TheElevator>>)
    BY <1>2, <1>3, Keys
<1>8. Idle(p)
    BY <1>1 DEF Place, Asked, Called, Noted, Answer, Waits
<1>9. HandAt(p)'
    BY <1>1, <1>7, <1>8 DEF HandAt, Attended, Present, Has, Untouched, elevatorVars, Idle, NoAnswer
<1>10. Place(p)'
  <2>1. Wanted(p)' = position[p] /\ Waits(p)'
    BY <1>1 DEF Wanted, Waits
  <2>2. NoEntry(p)'
    BY <1>1, <1>8, SameEntries DEF Idle, NoEntry, SameLists, elevatorVars
  <2>3. \A c \in Buttons : Untouched(<<c, TheElevator>>) /\ (c # b => Untouched(<<Passenger(p), c>>))
    BY <1>2, <1>3, Keys
  <2>4. NoPress(p)' /\ NoAnswer(p)'
    BY <1>7, <1>8, <2>3 DEF Idle, NoPress, NoAnswer, Pressed, Has, Untouched
  <2>5. OneAsk(p, b)'
    BY <1>2, <1>8, <2>3 DEF Idle, NoAsk, OneAsk, Has, Untouched, Added
  <2> QED
    BY <1>3, <2>1, <2>2, <2>4, <2>5 DEF Place, Asked
<1>11. \A pair : pair \notin Own(p) => Untouched(pair)
    BY <1>2, <1>3 DEF Own
<1> QED
    BY <1>1, <1>4, <1>5, <1>6, <1>9, <1>10, <1>11, PersonFrame

(* A person who does not wait, before and after the step. *)
LEMMA StaysIdle ==
    ASSUME NEW p \in Person, Idle(p), ~Waits(p)', SameLists,
           \A b \in Buttons : Untouched(<<Passenger(p), b>>) /\ Untouched(<<b, TheElevator>>),
           ~Has(TheElevator, Passenger(p))'
    PROVE  Place(p)'
<1>1. NoEntry(p)'
    BY SameEntries DEF Idle, NoEntry
<1>2. NoAsk(p)' /\ NoPress(p)' /\ NoAnswer(p)'
    BY DEF Idle, NoAsk, NoPress, NoAnswer, Pressed, Has, Untouched
<1> QED
    BY <1>1, <1>2 DEF Place, Idle

(* Met and Arrive: the answer of the elevator reaches the person. *)
LEMMA AnswerTaken ==
    ASSUME Ind, NEW p \in Person, NEW to \in {"enter", "leave"}, Waits(p), pc'[p] = to,
           \A q \in Person : q # p => /\ pc'[q] = pc[q] /\ position'[q] = position[q]
                                      /\ destination'[q] = destination[q],
           position'[p] = Wanted(p),
           UNCHANGED <<elevatorVars, deviceVars, tripCount>>,
           Pool!Get(TheElevator, Passenger(p)), VarTypes'
    PROVE  Ind'
<1>1. /\ Has(TheElevator, Passenger(p)) /\ ~Has(TheElevator, Passenger(p))'
      /\ \A pair : pair # <<TheElevator, Passenger(p)>> => Untouched(pair)
    BY Getting
<1>2. HandAt(p) /\ Place(p) /\ TripAt(p)
    BY DEF Ind, HandInv, TokenInv, TripInv
<1>3. Answer(p)
    BY <1>1, <1>2 DEF Place, Idle, Asked, Called, Noted, NoAnswer
<1>4. Attended(p) /\ Wanted(p) = currentFloor /\ ~Has(Passenger(p), TheElevator)
    BY <1>1, <1>2 DEF HandAt, Waits
<1>5. SameLists
    BY DEF SameLists, elevatorVars
<1>6. /\ \A b \in Buttons : Untouched(<<Passenger(p), b>>) /\ Untouched(<<b, TheElevator>>)
      /\ Untouched(<<Passenger(p), TheElevator>>)
    BY <1>1, Keys
<1>7. Place(p)'
  <2>1. NoEntry(p)'
    BY <1>3, <1>5, SameEntries DEF Answer, NoEntry
  <2>2. NoAsk(p)' /\ NoPress(p)' /\ NoAnswer(p)'
    BY <1>1, <1>3, <1>6 DEF Answer, NoAsk, NoPress, NoAnswer, Pressed, Has, Untouched
  <2> QED
    BY <2>1, <2>2 DEF Place, Idle, Waits
<1>8. HandAt(p)'
    BY <1>1, <1>4, <1>5, <1>6 DEF HandAt, Attended, Present, SameLists, Has, Untouched
<1>9. TripAt(p)'
    BY <1>2 DEF TripAt, Waits
<1>10. \A pair : pair \notin Own(p) => Untouched(pair)
    BY <1>1 DEF Own
<1>11. \A pair \in DOMAIN messages' : Untouched(pair)
    BY <1>1 DEF Has
<1> QED
    BY <1>7, <1>8, <1>9, <1>10, <1>11, PersonFrame

(* p is told that the car has come, and moves in. *)
LEMMA MetStep == ASSUME Ind, NEW p \in Person, Met(p) PROVE Ind'
<1>1. /\ pc[p] = "called" /\ pc'[p] = "enter"
      /\ \A q \in Person : q # p => pc'[q] = pc[q]
      /\ UNCHANGED <<elevatorVars, deviceVars, position, destination, tripCount, ended>>
    BY Going DEF Met
<1>2. VarTypes'
    BY <1>1 DEF Ind, VarTypes, Met, Goto, elevatorVars, deviceVars
<1>3. Waits(p) /\ position'[p] = Wanted(p) /\ Pool!Get(TheElevator, Passenger(p))
    BY <1>1 DEF Waits, Wanted, Met
<1> QED
    BY <1>1, <1>2, <1>3, AnswerTaken

(* p is told that it has arrived, and moves out. *)
LEMMA ArriveStep == ASSUME Ind, NEW p \in Person, Arrive(p) PROVE Ind'
<1>1. /\ pc[p] = "riding" /\ pc'[p] = "leave"
      /\ \A q \in Person : q # p => pc'[q] = pc[q]
      /\ TripAt(p)
      /\ UNCHANGED <<elevatorVars, deviceVars, destination, tripCount, ended>>
      /\ position' = [position EXCEPT ![p] = destination[p]]
    BY Going DEF Arrive
<1>2. destination[p] \in Floor
    BY <1>1 DEF TripAt
<1>3. VarTypes'
    BY <1>1, <1>2 DEF Ind, VarTypes, Arrive, Goto, elevatorVars, deviceVars
<1>4. Waits(p) /\ Pool!Get(TheElevator, Passenger(p))
    BY <1>1 DEF Waits, Arrive
<1>5. position'[p] = Wanted(p) /\ \A q \in Person : q # p => position'[q] = position[q]
    BY <1>1 DEF Wanted, Ind, VarTypes
<1> QED
    BY <1>1, <1>3, <1>4, <1>5, AnswerTaken

(* Entered and Left: the person answers. *)
LEMMA AnswerSent ==
    ASSUME Ind, NEW p \in Person, pc[p] \in {"enter", "leave"}, pc'[p] \in {"inside", "out"},
           \A q \in Person : q # p => pc'[q] = pc[q],
           UNCHANGED <<elevatorVars, deviceVars, position, destination, tripCount>>,
           Pool!Send(Passenger(p), TheElevator, TRUE), VarTypes'
    PROVE  Ind'
<1>1. /\ Added(<<Passenger(p), TheElevator>>, TRUE)
      /\ \A pair : pair # <<Passenger(p), TheElevator>> => Untouched(pair)
    BY Sending
<1>2. HandAt(p) /\ Place(p) /\ TripAt(p)
    BY DEF Ind, HandInv, TokenInv, TripInv
<1>3. Idle(p)
    BY <1>2 DEF Place, Asked, Called, Noted, Answer, Waits
<1>4. Attended(p) /\ ~Has(TheElevator, Passenger(p))
    BY <1>2 DEF HandAt
<1>5. SameLists
    BY DEF SameLists, elevatorVars
<1>6. /\ \A b \in Buttons : Untouched(<<Passenger(p), b>>) /\ Untouched(<<b, TheElevator>>)
      /\ Untouched(<<TheElevator, Passenger(p)>>)
    BY <1>1, Keys
<1>7. ~Has(TheElevator, Passenger(p))'
    BY <1>4, <1>6 DEF Has, Untouched
<1>8. Place(p)'
    BY <1>3, <1>5, <1>6, <1>7, StaysIdle DEF Waits
<1>9. HandAt(p)'
    BY <1>4, <1>5, <1>7 DEF HandAt, Attended, Present, SameLists
<1>10. TripAt(p)'
    BY <1>2 DEF TripAt
<1>11. \A pair : pair \notin Own(p) => Untouched(pair)
    BY <1>1 DEF Own
<1>12. \A pair \in DOMAIN messages' : Untouched(pair) \/ Carries(pair, messages'[pair])
    BY <1>1 DEF Added, Carries
<1> QED
    BY <1>8, <1>9, <1>10, <1>11, <1>12, PersonFrame

(* p is in or out, and says so. *)
LEMMA EnteredStep == ASSUME Ind, NEW p \in Person, Entered(p) \/ Left(p) PROVE Ind'
<1>1. /\ pc[p] \in {"enter", "leave"} /\ pc'[p] \in {"inside", "out"}
      /\ \A q \in Person : q # p => pc'[q] = pc[q]
      /\ UNCHANGED <<elevatorVars, deviceVars, position, destination, tripCount, ended>>
    BY Going DEF Entered, Left
<1>2. VarTypes'
    BY <1>1 DEF Ind, VarTypes, Entered, Left, Goto, elevatorVars, deviceVars
<1> QED
    BY <1>1, <1>2, AnswerSent DEF Entered, Left

(* The second request of a trip goes to a button in the car. *)
LEMMA ChooseStep == ASSUME Ind, NEW p \in Person, Choose(p) PROVE Ind'
<1>1. /\ pc[p] = "inside" /\ pc'[p] = "riding" /\ ~Has(Passenger(p), TheElevator)
      /\ \A q \in Person : q # p => pc'[q] = pc[q]
      /\ HandAt(p) /\ Place(p) /\ TripAt(p)
      /\ UNCHANGED <<elevatorVars, deviceVars, position, tripCount, ended>>
    BY Going DEF Choose, Pool!Received, Pool!hasMessage, Has
<1>2. PICK f \in Floor : /\ destination' = [destination EXCEPT ![p] = f]
                         /\ Pool!Send(Passenger(p), ElevatorButton(f), TRUE)
    BY DEF Choose
<1>3. PICK b \in Buttons : b = ElevatorButton(f) /\ b[2] = f
    BY Keys
<1>4. /\ Added(<<Passenger(p), b>>, TRUE)
      /\ \A pair : pair # <<Passenger(p), b>> => Untouched(pair)
    BY <1>2, <1>3, Sending
<1>5. VarTypes'
    BY <1>1, <1>2 DEF Ind, VarTypes, Choose, Goto, elevatorVars, deviceVars
<1>6. destination'[p] = f /\ \A q \in Person : q # p => destination'[q] = destination[q]
    BY <1>2 DEF Ind, VarTypes
<1>7. \A pair \in DOMAIN messages' : Untouched(pair) \/ Carries(pair, messages'[pair])
    BY <1>4 DEF Carries, Added
<1>8. TripAt(p)'
    BY <1>1, <1>6 DEF TripAt
<1>9. Untouched(<<TheElevator, Passenger(p)>>) /\ Untouched(<<Passenger(p), TheElevator>>)
    BY <1>4, Keys
<1>10. Idle(p)
    BY <1>1 DEF Place, Asked, Called, Noted, Answer, Waits
<1>11. HandAt(p)'
    BY <1>1, <1>9, <1>10 DEF HandAt, Has, Untouched, Idle, NoAnswer
<1>12. Place(p)'
  <2>1. Wanted(p)' = f /\ Waits(p)'
    BY <1>1, <1>6 DEF Wanted, Waits
  <2>2. NoEntry(p)'
    BY <1>1, <1>10, SameEntries DEF Idle, NoEntry, SameLists, elevatorVars
  <2>3. \A c \in Buttons : Untouched(<<c, TheElevator>>) /\ (c # b => Untouched(<<Passenger(p), c>>))
    BY <1>4, <1>3, Keys
  <2>4. NoPress(p)' /\ NoAnswer(p)'
    BY <1>9, <1>10, <2>3 DEF Idle, NoPress, NoAnswer, Pressed, Has, Untouched
  <2>5. OneAsk(p, b)'
    BY <1>4, <1>10, <2>3 DEF Idle, NoAsk, OneAsk, Has, Untouched, Added
  <2> QED
    BY <1>3, <2>1, <2>2, <2>4, <2>5 DEF Place, Asked
<1>13. \A pair : pair \notin Own(p) => Untouched(pair)
    BY <1>3, <1>4 DEF Own
<1> QED
    BY <1>1, <1>5, <1>6, <1>7, <1>8, <1>11, <1>12, <1>13, PersonFrame

(* The end of a trip, and of all trips. *)
LEMMA OverStep == ASSUME Ind, NEW p \in Person, TripOver(p) \/ AllTripsDone(p) PROVE Ind'
<1>1. /\ pc[p] \in {"out", "home"} /\ pc'[p] \in {"home", "over"}
      /\ \A q \in Person : q # p => pc'[q] = pc[q]
      /\ HandAt(p) /\ Place(p) /\ TripAt(p)
      /\ UNCHANGED <<elevatorVars, deviceVars, position, messages>>
      /\ ~Has(Passenger(p), TheElevator)
    BY Going DEF TripOver, AllTripsDone, Pool!Received, Pool!hasMessage, Has, HandAt
<1>2. \A q \in Person : q # p => destination'[q] = destination[q] /\ tripCount'[q] = tripCount[q]
    BY DEF TripOver, AllTripsDone, Ind, VarTypes
<1>3. VarTypes'
  <2>1. tripCount' \in [Person -> 0..Trips] /\ destination' \in [Person -> Floor \cup {None}]
    <3>1. CASE TripOver(p)
      <4>1. pc[p] = "out" /\ tripCount[p] \in 0..Trips /\ tripCount[p] # 0
        BY <1>1, <3>1 DEF Ind, VarTypes, TripOver, Goto, TripAt
      <4> QED
        BY <3>1, <4>1, SimulatorAssumption DEF Ind, VarTypes, TripOver
    <3>2. CASE AllTripsDone(p)
        BY <3>2 DEF Ind, VarTypes, AllTripsDone
    <3> QED
        BY <3>1, <3>2
  <2> QED
    BY <1>1, <2>1 DEF Ind, VarTypes, TripOver, AllTripsDone, Goto, elevatorVars, deviceVars
<1>4. \A pair : Untouched(pair)
    BY <1>1 DEF Untouched
<1>5. Idle(p)
    BY <1>1 DEF Place, Asked, Called, Noted, Answer, Waits
<1>6. ~Has(TheElevator, Passenger(p))' /\ ~Has(Passenger(p), TheElevator)'
    BY <1>1, <1>5 DEF Has, Idle, NoAnswer
<1>7. TripAt(p)' /\ HandAt(p)'
    BY <1>1, <1>6 DEF TripAt, HandAt
<1>8. Place(p)'
    BY <1>1, <1>4, <1>5, <1>6, StaysIdle DEF Waits, SameLists, elevatorVars
<1> QED
    BY <1>1, <1>2, <1>3, <1>4, <1>7, <1>8, PersonFrame

---------------------------------------------------------------------------------
(* The steps of the buttons, the doors and the engine. *)

(* A button passes the request on: Asked becomes Called. *)
LEMMA PressStep == ASSUME Ind, NEW b \in Buttons, Press(b) PROVE Ind'
<1>1. PICK p \in Person : Pool!GetAndSend(Passenger(p), b, TheElevator, <<p, b[2]>>)
    BY DEF Press
<1>2. /\ ~Has(b, TheElevator)
      /\ UNCHANGED <<pc, position, destination, tripCount, serving, currentFloor, queue, request, served,
                     personsForFloor, target, door, ended>>
    BY DEF Press, Pool!Received, Pool!hasMessage, Has, personVars, elevatorVars, deviceVars
<1>3. /\ Has(Passenger(p), b) /\ ~Has(Passenger(p), b)'
      /\ Added(<<b, TheElevator>>, <<p, b[2]>>)
      /\ \A pair : pair # <<Passenger(p), b>> /\ pair # <<b, TheElevator>> => Untouched(pair)
  <2>1. Passenger(p) # b
    BY Keys
  <2> QED
    BY <1>1, <2>1, Passing
<1>4. VarTypes'
    BY <1>2 DEF Ind, VarTypes
<1>5. ChannelInv'
    BY <1>3, ChannelKept DEF Ind, Added, Carries, Has
<1>6. \A f \in Floor : Untouched(<<TheElevator, Door(f)>>)
    BY <1>3, Keys
<1>7. Untouched(<<TheElevator, Engine>>) /\ Untouched(<<Engine, TheElevator>>)
    BY <1>3, Keys
<1>8. \A q \in Person : Untouched(<<TheElevator, Passenger(q)>>) /\ Untouched(<<Passenger(q), TheElevator>>)
    BY <1>3, Keys
<1>9. TripInv' /\ ErrandInv' /\ DoorInv' /\ ServeInv'
    BY <1>2, <1>6, <1>7, ErrandFrame, DoorFrame, ServeFrame DEF Ind, TripInv, TripAt
<1>10. HandInv'
    BY <1>2, <1>8, HandFrame DEF Ind, HandInv
<1>11. \A q \in Person, f \in Floor, k \in Nat : Entry(q, f, k)' <=> Entry(q, f, k)
    BY <1>2, SameEntries DEF SameLists
<1>12. ASSUME NEW q \in Person
       PROVE  /\ Place(q) /\ (Waits(q)' <=> Waits(q)) /\ Wanted(q)' = Wanted(q)
              /\ (Waits(q) => Wanted(q) \in Floor)
              /\ Has(TheElevator, Passenger(q))' <=> Has(TheElevator, Passenger(q))
              /\ \A c \in Buttons : c # b => (Pressed(q, c)' <=> Pressed(q, c))
    BY <1>2, <1>3, <1>8, Keys, WantedFloor DEF Ind, TokenInv, Waits, Wanted, Untouched, Has, Pressed
<1>13. TokenInv'
  <2>1. ASSUME NEW q \in Person, q # p PROVE Place(q)'
    <3>1. \A c \in Buttons : Has(Passenger(q), c)' <=> Has(Passenger(q), c)
        BY <1>3, <2>1, Keys DEF Untouched, Has
    <3>2. Pressed(q, b)' <=> Pressed(q, b)
        BY <1>2, <1>3, <2>1 DEF Pressed, Has, Added
    <3> QED
        BY <1>11, <1>12, <3>1, <3>2, TokenFrame
  <2>2. Place(p)'
    <3>1. Asked(p) /\ OneAsk(p, b) /\ b[2] = Wanted(p)
        BY <1>3, <1>12 DEF Place, Idle, Asked, Called, Noted, Answer, NoAsk, OneAsk
    <3>2. NoAsk(p)'
        BY <1>3, <3>1, Keys DEF OneAsk, NoAsk, Untouched, Has
    <3>3. NoEntry(p)' /\ NoAnswer(p)' /\ Waits(p)'
        BY <1>11, <1>12, <3>1 DEF Asked, NoEntry, NoAnswer
    <3>4. OnePress(p, b)'
        BY <1>3, <1>12, <3>1 DEF Asked, NoPress, OnePress, Pressed, Has, Added
    <3> QED
        BY <1>12, <3>1, <3>2, <3>3, <3>4 DEF Place, Called
  <2> QED
    BY <2>1, <2>2 DEF TokenInv
<1> QED
    BY <1>4, <1>5, <1>9, <1>10, <1>13 DEF Ind

(* A step that changes nothing that concerns the persons. *)
LEMMA PersonsSame ==
    ASSUME Ind, UNCHANGED <<pc, position, destination, tripCount>>, SameLists,
           \A p \in Person : /\ Untouched(<<TheElevator, Passenger(p)>>) /\ Untouched(<<Passenger(p), TheElevator>>)
                             /\ \A b \in Buttons : Untouched(<<Passenger(p), b>>),
           \A b \in Buttons : Untouched(<<b, TheElevator>>)
    PROVE  TripInv' /\ ServeInv' /\ HandInv' /\ TokenInv'
<1>1. TripInv' /\ ServeInv'
    BY ServeFrame DEF Ind, TripInv, TripAt, SameLists
<1>2. HandInv'
    BY HandFrame DEF Ind, HandInv, SameLists
<1>3. TokenInv'
    BY TokenSame DEF TokenInv
<1> QED
    BY <1>1, <1>2, <1>3

(* A door takes its message and then does what it says. *)
LEMMA DoorStepKeeps == ASSUME Ind, NEW f \in Floor, DoorStep(f) PROVE Ind'
<1>1. UNCHANGED <<pc, position, destination, tripCount, serving, currentFloor, queue, request, served,
                  personsForFloor, target, ended>>
    BY DEF DoorStep, personVars, elevatorVars
<1>2. \A pair : pair # <<TheElevator, Door(f)>> => Untouched(pair)
    BY Getting DEF DoorStep, Untouched
<1>3. \A g \in Floor : g # f => Untouched(<<TheElevator, Door(g)>>)
    BY <1>2, Keys
<1>4. Untouched(<<TheElevator, Engine>>) /\ Untouched(<<Engine, TheElevator>>)
    BY <1>2, Keys
<1>5. /\ \A p \in Person : /\ Untouched(<<TheElevator, Passenger(p)>>) /\ Untouched(<<Passenger(p), TheElevator>>)
                           /\ \A b \in Buttons : Untouched(<<Passenger(p), b>>)
      /\ \A b \in Buttons : Untouched(<<b, TheElevator>>)
    BY <1>2, Keys
<1>6. TripInv' /\ ServeInv' /\ HandInv' /\ TokenInv'
    BY <1>1, <1>5, PersonsSame DEF SameLists
<1>7. ErrandInv'
    BY <1>1, <1>4, ErrandFrame DEF Ind
<1>8. CASE /\ door[f] \in {"open", "closed"}
           /\ Pool!Get(TheElevator, Door(f))
           /\ door' = [door EXCEPT ![f] = IF Pool!Message(TheElevator, Door(f)) THEN "opening" ELSE "closing"]
  <2>1. Has(TheElevator, Door(f)) /\ ~Has(TheElevator, Door(f))'
    BY <1>8, Getting
  <2>2. f = currentFloor /\ serving \notin {"wait", "started", "answer"}
    BY <2>1 DEF Ind, DoorInv
  <2>3. messages[<<TheElevator, Door(f)>>] = (serving = "serve")
    BY <2>1, <2>2 DEF Ind, DoorInv
  <2>4. /\ \A g \in Floor : g # f => door'[g] = door[g]
        /\ door'[f] = IF serving = "serve" THEN "opening" ELSE "closing"
    BY <1>8, <2>3 DEF Ind, VarTypes, Pool!Message
  <2>5. VarTypes'
    BY <1>1, <1>8 DEF Ind, VarTypes
  <2>6. ChannelInv'
    BY <1>2, <2>1, ChannelKept DEF Ind, Has
  <2>7. DoorInv'
    <3>1. Up' <=> serving = "serve"
        BY <1>1, <2>2, <2>4 DEF Up
    <3> QED
        BY <1>1, <1>3, <2>1, <2>2, <2>4, <3>1 DEF Ind, VarTypes, DoorInv, Untouched, Has
  <2> QED
    BY <1>6, <1>7, <2>5, <2>6, <2>7 DEF Ind
<1>9. CASE /\ door[f] \in {"opening", "closing"}
           /\ door' = [door EXCEPT ![f] = IF @ = "opening" THEN "open" ELSE "closed"]
           /\ UNCHANGED messages
  <2>1. VarTypes'
    BY <1>1, <1>9 DEF Ind, VarTypes
  <2>2. ChannelInv'
    BY <1>9, ChannelKept DEF Ind, Untouched
  <2>3. \A g \in Floor : /\ door'[g] \in {"opening", "open"} <=> door[g] \in {"opening", "open"}
                         /\ door'[g] \in {"closing", "closed"} <=> door[g] \in {"closing", "closed"}
    BY <1>9 DEF Ind, VarTypes
  <2>4. DoorInv'
    BY <1>1, <1>9, <2>3 DEF Ind, VarTypes, DoorInv, Up, Has
  <2> QED
    BY <1>6, <1>7, <2>1, <2>2, <2>4 DEF Ind
<1> QED
    BY <1>8, <1>9 DEF DoorStep

(* The engine takes its errand, and tells the elevator that it has arrived. *)
LEMMA EngineStepKeeps == ASSUME Ind, EngineStep PROVE Ind'
<1>1. UNCHANGED <<pc, position, destination, tripCount, serving, currentFloor, queue, request, served,
                  personsForFloor, door, ended>>
    BY DEF EngineStep, personVars, elevatorVars
<1>2. \A pair : pair # <<TheElevator, Engine>> /\ pair # <<Engine, TheElevator>> => Untouched(pair)
    BY Getting, Sending DEF EngineStep
<1>3. \A f \in Floor : Untouched(<<TheElevator, Door(f)>>)
    BY <1>2, Keys
<1>4. /\ \A p \in Person : /\ Untouched(<<TheElevator, Passenger(p)>>) /\ Untouched(<<Passenger(p), TheElevator>>)
                           /\ \A b \in Buttons : Untouched(<<Passenger(p), b>>)
      /\ \A b \in Buttons : Untouched(<<b, TheElevator>>)
    BY <1>2, Keys
<1>5. TripInv' /\ ServeInv' /\ HandInv' /\ TokenInv'
    BY <1>1, <1>4, PersonsSame DEF SameLists
<1>6. DoorInv'
    BY <1>1, <1>3, DoorFrame DEF Ind
<1>7. CASE /\ target = None
           /\ Pool!Get(TheElevator, Engine)
           /\ target' = Pool!Message(TheElevator, Engine)
  <2>1. /\ Has(TheElevator, Engine) /\ ~Has(TheElevator, Engine)'
        /\ \A pair : pair # <<TheElevator, Engine>> => Untouched(pair)
    BY <1>7, Getting
  <2>2. Untouched(<<Engine, TheElevator>>)
    BY <2>1, Keys
  <2>3. target' = messages[<<TheElevator, Engine>>] /\ target' \in Floor
    BY <1>7, <2>1, Keys DEF Pool!Message, Ind, ChannelInv, Carries, Has
  <2>4. ASSUME NEW f \in Floor, Sent(f) PROVE Sent(f)'
    BY <1>7, <2>1, <2>2, <2>3, <2>4 DEF Sent, Untouched, Has
  <2>5. ErrandInv'
    <3>1. serving \in {"wait", "started"} /\ (serving = "wait" => queue # <<>> /\ queue[1] \in Floor)
        BY <2>1 DEF Ind, VarTypes, ErrandInv, Resting
    <3> QED
        BY <1>1, <2>4, <3>1 DEF Ind, ErrandInv
  <2>6. VarTypes'
    BY <1>1, <2>3 DEF Ind, VarTypes
  <2>7. ChannelInv'
    BY <2>1, ChannelKept DEF Ind, Has
  <2> QED
    BY <1>5, <1>6, <2>5, <2>6, <2>7 DEF Ind
<1>8. CASE /\ target # None
           /\ Pool!Send(Engine, TheElevator, target)
           /\ target' = None
  <2>1. /\ Added(<<Engine, TheElevator>>, target)
        /\ \A pair : pair # <<Engine, TheElevator>> => Untouched(pair)
    BY <1>8, Sending
  <2>2. Untouched(<<TheElevator, Engine>>)
    BY <2>1, Keys
  <2>3. target \in Floor
    BY <1>8 DEF Ind, VarTypes
  <2>4. ASSUME NEW f \in Floor, Sent(f) PROVE Sent(f)'
    BY <1>8, <2>1, <2>2, <2>4 DEF Sent, Untouched, Has, Added
  <2>5. ErrandInv'
    <3>1. serving \in {"wait", "started"} /\ (serving = "wait" => queue # <<>> /\ queue[1] \in Floor)
        BY <1>8 DEF Ind, VarTypes, ErrandInv, Resting
    <3> QED
        BY <1>1, <2>4, <3>1 DEF Ind, ErrandInv
  <2>6. VarTypes'
    BY <1>1, <1>8 DEF Ind, VarTypes
  <2>7. ChannelInv'
    BY <2>1, <2>3, ChannelKept DEF Ind, Carries, Added
  <2> QED
    BY <1>5, <1>6, <2>5, <2>6, <2>7 DEF Ind
<1> QED
    BY <1>7, <1>8 DEF EngineStep

---------------------------------------------------------------------------------
(* The steps of the elevator. *)

(* While no floor is served nobody is being told anything. *)
LEMMA NobodyServed ==
    ASSUME Ind, serving # "answer", NEW p \in Person
    PROVE  /\ pc[p] \notin {"enter", "leave"}
           /\ ~Has(TheElevator, Passenger(p)) /\ ~Has(Passenger(p), TheElevator)
BY DEF Ind, HandInv, HandAt, Attended

(* A step that leaves the persons, the buttons and what is noted alone. *)
LEMMA NotingKept ==
    ASSUME Ind, UNCHANGED <<pc, position, destination, tripCount>>,
           \A p \in Person, f \in Floor, k \in Nat : Entry(p, f, k)' <=> Entry(p, f, k),
           \A b \in Buttons, p \in Person : Untouched(<<Passenger(p), b>>),
           \A b \in Buttons : Untouched(<<b, TheElevator>>)
    PROVE  /\ TripInv'
           /\ \A p \in Person : Untouched(<<TheElevator, Passenger(p)>>) => Place(p)'
<1>1. TripInv'
    BY DEF Ind, TripInv, TripAt
<1>2. ASSUME NEW p \in Person, Untouched(<<TheElevator, Passenger(p)>>)
      PROVE  Place(p)'
  <2>1. Place(p) /\ (Waits(p)' <=> Waits(p)) /\ Wanted(p)' = Wanted(p) /\ (Waits(p) => Wanted(p) \in Floor)
    BY WantedFloor DEF Ind, TokenInv, Waits, Wanted
  <2>2. \A b \in Buttons : (Has(Passenger(p), b)' <=> Has(Passenger(p), b)) /\ (Pressed(p, b)' <=> Pressed(p, b))
    BY DEF Untouched, Has, Pressed
  <2>3. Has(TheElevator, Passenger(p))' <=> Has(TheElevator, Passenger(p))
    BY <1>2 DEF Untouched, Has
  <2> QED
    BY <2>1, <2>2, <2>3, TokenFrame
<1> QED
    BY <1>1, <1>2

(* Neither before nor after the step somebody is served. *)
LEMMA NobodyServedKept ==
    ASSUME Ind, serving # "answer", UNCHANGED <<pc, position, destination>>,
           \A p \in Person : Untouched(<<TheElevator, Passenger(p)>>) /\ Untouched(<<Passenger(p), TheElevator>>)
    PROVE  HandInv'
<1> SUFFICES ASSUME NEW p \in Person PROVE HandAt(p)'
    BY DEF HandInv
<1> QED
    BY NobodyServed DEF HandAt, Untouched, Has

(* queue.add after the test keeps the floors different and loses none. *)
LEMMA EnqueueKeeps ==
    ASSUME queue \in Seq(Floor), \A j, k \in 1..Len(queue) : queue[j] = queue[k] => j = k,
           NEW floor \in Floor, Enqueue(floor)
    PROVE  /\ queue' \in Seq(Floor) /\ queue' # <<>>
           /\ \A j, k \in 1..Len(queue') : queue'[j] = queue'[k] => j = k
           /\ queue = <<>> => queue'[1] = floor
           /\ queue # <<>> => queue'[1] = queue[1]
           /\ \E k \in 1..Len(queue') : queue'[k] = floor
           /\ \A k \in 1..Len(queue) : k \in 1..Len(queue') /\ queue'[k] = queue[k]
<1>1. CASE Contains(queue, floor)
    BY <1>1 DEF Enqueue, Contains
<1>2. CASE ~Contains(queue, floor)
  <2>1. queue' = Append(queue, floor) /\ \A k \in 1..Len(queue) : queue[k] # floor
    BY <1>2 DEF Enqueue, Contains
  <2>2. /\ queue' \in Seq(Floor) /\ Len(queue') = Len(queue) + 1 /\ queue'[Len(queue) + 1] = floor
        /\ \A k \in 1..Len(queue) : queue'[k] = queue[k]
    BY <2>1
  <2> QED
    BY <2>1, <2>2
<1> QED
    BY <1>1, <1>2

(* The elevator notes a request: Called becomes Noted. *)
LEMMA ButtonEventStep == ASSUME Ind, NEW b \in Buttons, ButtonEvent(b) PROVE Ind'
<1>1. /\ serving = "wait" /\ serving' \in {"wait", "started"}
      /\ Has(b, TheElevator) /\ ~Has(TheElevator, Engine)
      /\ UNCHANGED <<pc, position, destination, tripCount, target, door, ended, currentFloor, served>>
    BY DEF ButtonEvent, Serving, Pool!Received, Pool!hasMessage, Has, personVars, deviceVars
<1>2. PICK p \in Person : messages[<<b, TheElevator>>] = <<p, b[2]>>
    BY <1>1, Keys DEF Ind, ChannelInv, Carries, Has
<1>3. PICK floor \in Floor : floor = b[2]
    BY Keys
<1>4. /\ personsForFloor' = [personsForFloor EXCEPT ![floor] = Append(@, p)]
      /\ \/ /\ queue = <<>> /\ serving' = "started"
            /\ Pool!GetAndSend(b, TheElevator, Engine, floor)
            /\ request' = floor /\ queue' = queue
         \/ /\ queue # <<>> /\ serving' = "wait"
            /\ Pool!Get(b, TheElevator)
            /\ Enqueue(floor) /\ request' = request
  <2>1. Pool!Message(b, TheElevator)[1] = p /\ Pool!Message(b, TheElevator)[2] = floor
    BY <1>2, <1>3 DEF Pool!Message
  <2> QED
    BY <2>1 DEF ButtonEvent, Serving
<1>5. /\ ~Has(b, TheElevator)'
      /\ \A pair : pair # <<b, TheElevator>> /\ pair # <<TheElevator, Engine>> => Untouched(pair)
      /\ queue = <<>> => Added(<<TheElevator, Engine>>, floor)
      /\ queue # <<>> => Untouched(<<TheElevator, Engine>>)
    BY <1>4, Keys, Getting, Passing
<1>6. /\ \A f \in Floor : Untouched(<<TheElevator, Door(f)>>)
      /\ Untouched(<<Engine, TheElevator>>)
      /\ \A q \in Person : /\ Untouched(<<TheElevator, Passenger(q)>>) /\ Untouched(<<Passenger(q), TheElevator>>)
                           /\ \A c \in Buttons : Untouched(<<Passenger(q), c>>)
      /\ \A c \in Buttons : c # b => Untouched(<<c, TheElevator>>)
    BY <1>5, Keys
<1>7. /\ personsForFloor[floor] \in Seq(Person)
      /\ personsForFloor'[floor] = Append(personsForFloor[floor], p)
      /\ \A f \in Floor : f # floor => personsForFloor'[f] = personsForFloor[f]
    BY <1>4 DEF Ind, VarTypes
<1>8. queue' \in Seq(Floor)
    BY <1>4, EnqueueKeeps DEF Ind, VarTypes, ErrandInv
<1>9. VarTypes'
    BY <1>1, <1>4, <1>7, <1>8 DEF Ind, VarTypes
<1>10. ChannelInv'
  <2>1. queue = <<>> => Carries(<<TheElevator, Engine>>, messages'[<<TheElevator, Engine>>])
    BY <1>5 DEF Added, Carries
  <2> QED
    BY <1>5, <2>1, ChannelKept DEF Ind, Has
<1>11. TripInv' /\ ServeInv' /\ HandInv'
    BY <1>1, <1>6, NobodyServedKept DEF Ind, TripInv, TripAt, ServeInv
<1>12. DoorInv'
    BY <1>1, <1>6 DEF Ind, VarTypes, DoorInv, Untouched, Has
<1>13. ErrandInv'
  <2>1. request = None /\ \A f \in Floor : personsForFloor[f] # <<>> => \E k \in 1..Len(queue) : queue[k] = f
    BY <1>1, Floors DEF Ind, ErrandInv
  <2>2. CASE queue = <<>>
    <3>1. Sent(floor)'
        BY <1>1, <1>5, <1>6, <2>2 DEF Ind, ErrandInv, Resting, Sent, Added, Untouched, Has
    <3> QED
        BY <1>1, <1>4, <1>7, <2>1, <2>2, <3>1 DEF ErrandInv
  <2>3. CASE queue # <<>>
    <3>1. PICK first \in Floor : first = queue[1]
        BY <2>3 DEF Ind, VarTypes
    <3>2. Sent(first)'
        BY <1>1, <1>5, <1>6, <2>3, <3>1 DEF Ind, ErrandInv, Sent, Untouched, Has
    <3>3. Enqueue(floor) /\ serving' = "wait" /\ request' = None
        BY <1>4, <2>1, <2>3
    <3>4. /\ queue' # <<>> /\ queue'[1] = queue[1]
          /\ \A j, k \in 1..Len(queue') : queue'[j] = queue'[k] => j = k
          /\ \E k \in 1..Len(queue') : queue'[k] = floor
          /\ \A k \in 1..Len(queue) : k \in 1..Len(queue') /\ queue'[k] = queue[k]
        BY <2>3, <3>3, EnqueueKeeps DEF Ind, VarTypes, ErrandInv
    <3>5. \A f \in Floor : personsForFloor'[f] # <<>> => \E k \in 1..Len(queue') : queue'[k] = f
        BY <1>7, <2>1, <3>4
    <3> QED
        BY <3>1, <3>2, <3>3, <3>4, <3>5 DEF ErrandInv
  <2> QED
    BY <2>2, <2>3
<1>14. TokenInv'
  <2>n. PICK n \in Nat : n = Len(personsForFloor[floor]) + 1
    BY <1>7
  <2>1. /\ Len(personsForFloor[floor]) = n - 1 /\ n > 0 /\ Len(personsForFloor'[floor]) = n /\ personsForFloor'[floor][n] = p
        /\ \A k \in 1..(n - 1) : personsForFloor'[floor][k] = personsForFloor[floor][k]
    BY <1>7, <2>n
  <2>2. \A q \in Person, f \in Floor, k \in Nat : (f # floor \/ k # n) => (Entry(q, f, k)' <=> Entry(q, f, k))
    BY <1>1, <1>7, <2>1 DEF Entry
  <2>3. \A q \in Person : (Entry(q, floor, n)' <=> q = p) /\ ~Entry(q, floor, n)
    BY <1>1, <2>1 DEF Entry
  <2>4. ASSUME NEW q \in Person
        PROVE  /\ Place(q) /\ (Waits(q)' <=> Waits(q)) /\ Wanted(q)' = Wanted(q)
               /\ (Waits(q) => Wanted(q) \in Floor)
               /\ Has(TheElevator, Passenger(q))' <=> Has(TheElevator, Passenger(q))
               /\ \A c \in Buttons : Has(Passenger(q), c)' <=> Has(Passenger(q), c)
               /\ \A c \in Buttons : c # b => (Pressed(q, c)' <=> Pressed(q, c))
    BY <1>1, <1>6, WantedFloor DEF Ind, TokenInv, Waits, Wanted, Untouched, Has, Pressed
  <2>5. ASSUME NEW q \in Person, q # p PROVE Place(q)'
    <3>1. Pressed(q, b)' <=> Pressed(q, b)
        BY <1>2, <1>5, <2>5 DEF Pressed
    <3>2. \A f \in Floor, k \in Nat : Entry(q, f, k)' <=> Entry(q, f, k)
        BY <2>2, <2>3, <2>5
    <3> QED
        BY <2>4, <3>1, <3>2, TokenFrame
  <2>6. Place(p)'
    <3>1. Pressed(p, b)
        BY <1>1, <1>2 DEF Pressed
    <3>2. Called(p) /\ OnePress(p, b) /\ b[2] = Wanted(p)
        BY <2>4, <3>1 DEF Place, Idle, Asked, Called, Noted, Answer, NoPress, OnePress
    <3>3. NoAsk(p)' /\ NoAnswer(p)' /\ Waits(p)'
        BY <2>4, <3>2 DEF Called, NoAsk, NoAnswer
    <3>4. NoPress(p)'
        BY <1>5, <2>4, <3>2 DEF OnePress, NoPress, Pressed
    <3>5. OneEntry(p, floor, n)'
        BY <2>1, <2>2, <2>3, <3>2 DEF Called, NoEntry, OneEntry
    <3> QED
        BY <1>3, <2>1, <2>4, <3>2, <3>3, <3>4, <3>5 DEF Place, Noted
  <2> QED
    BY <2>5, <2>6 DEF TokenInv
<1> QED
    BY <1>9, <1>10, <1>11, <1>12, <1>13, <1>14 DEF Ind

(* The engine has read its order, and the floor is queued. *)
LEMMA EngineStartedStep == ASSUME Ind, EngineStarted PROVE Ind'
<1>1. /\ serving = "started" /\ serving' = "wait" /\ request' = None /\ Enqueue(request)
      /\ UNCHANGED <<pc, position, destination, tripCount, target, door, ended, messages, currentFloor, served,
                     personsForFloor>>
    BY DEF EngineStarted, Serving, personVars, deviceVars
<1>2. queue = <<>> /\ Sent(request) /\ request \in Floor
    BY <1>1 DEF Ind, ErrandInv
<1>3. PICK floor \in Floor : floor = request
    BY <1>2
<1>4. /\ queue' \in Seq(Floor) /\ queue' # <<>> /\ queue'[1] = floor
      /\ \A j, k \in 1..Len(queue') : queue'[j] = queue'[k] => j = k
      /\ \E k \in 1..Len(queue') : queue'[k] = floor
    BY <1>1, <1>2, <1>3, EnqueueKeeps DEF Ind, VarTypes
<1>5. \A pair : Untouched(pair)
    BY <1>1 DEF Untouched
<1>6. VarTypes' /\ ChannelInv' /\ ServeInv'
    BY <1>1, <1>4 DEF Ind, VarTypes, ChannelInv, ServeInv
<1>7. ErrandInv'
  <2>1. Sent(floor)'
    BY <1>1, <1>2, <1>3 DEF Sent, Has
  <2>2. \A f \in Floor : personsForFloor'[f] # <<>> => f = floor
    BY <1>1, <1>2, <1>3 DEF Ind, ErrandInv
  <2> QED
    BY <1>1, <1>4, <2>1, <2>2 DEF ErrandInv
<1>8. DoorInv'
    BY <1>1 DEF Ind, VarTypes, DoorInv, Has
<1>9. \A p \in Person, f \in Floor, k \in Nat : Entry(p, f, k)' <=> Entry(p, f, k)
    BY <1>1 DEF Entry
<1>10. TripInv' /\ TokenInv'
    BY <1>1, <1>5, <1>9, NotingKept DEF TokenInv
<1>11. HandInv'
    BY <1>1, <1>5, NobodyServedKept
<1> QED
    BY <1>6, <1>7, <1>8, <1>10, <1>11 DEF Ind

(* The car has arrived, and the door is told to open. *)
LEMMA EngineEventStep == ASSUME Ind, EngineEvent PROVE Ind'
<1>1. /\ serving = "wait" /\ serving' = "serve" /\ Has(Engine, TheElevator) /\ served' = 0
      /\ UNCHANGED <<pc, position, destination, tripCount, target, door, ended, queue, request, personsForFloor>>
    BY DEF EngineEvent, Serving, Pool!GetAndSend, Pool!hasMessage, Has, personVars, deviceVars
<1>2. /\ queue # <<>> /\ target = None /\ ~Has(TheElevator, Engine)
      /\ messages[<<Engine, TheElevator>>] = queue[1]
    BY <1>1 DEF Ind, ErrandInv, Resting, Sent
<1>3. PICK floor \in Floor : floor = queue[1]
    BY <1>2 DEF Ind, VarTypes
<1>4. /\ Pool!GetAndSend(Engine, TheElevator, Door(floor), TRUE)
      /\ currentFloor' = floor
    BY <1>2, <1>3 DEF EngineEvent, Pool!Message
<1>5. /\ ~Has(Engine, TheElevator)'
      /\ Added(<<TheElevator, Door(floor)>>, TRUE)
      /\ \A pair : pair # <<Engine, TheElevator>> /\ pair # <<TheElevator, Door(floor)>> => Untouched(pair)
    BY <1>4, Keys, Passing
<1>6. /\ \A f \in Floor : f # floor => Untouched(<<TheElevator, Door(f)>>)
      /\ Untouched(<<TheElevator, Engine>>)
      /\ \A q \in Person : /\ Untouched(<<TheElevator, Passenger(q)>>) /\ Untouched(<<Passenger(q), TheElevator>>)
                           /\ \A c \in Buttons : Untouched(<<Passenger(q), c>>)
      /\ \A c \in Buttons : Untouched(<<c, TheElevator>>)
    BY <1>5, Keys
<1>7. VarTypes'
    BY <1>1, <1>4 DEF Ind, VarTypes
<1>8. ChannelInv'
  <2>1. Carries(<<TheElevator, Door(floor)>>, messages'[<<TheElevator, Door(floor)>>])
    BY <1>5 DEF Added, Carries
  <2> QED
    BY <1>5, <2>1, ChannelKept DEF Ind, Has
<1>9. ErrandInv'
  <2>1. Resting'
    BY <1>1, <1>2, <1>5, <1>6 DEF Resting, Untouched, Has
  <2> QED
    BY <1>1, <1>2, <1>3, <1>4, <2>1 DEF Ind, ErrandInv
<1>10. DoorInv'
  <2>1. \A f \in Floor : door[f] \in {"closing", "closed"} /\ ~Has(TheElevator, Door(f))
    BY <1>1 DEF Ind, DoorInv
  <2>2. ~Up'
    BY <1>1, <1>4, <2>1 DEF Up
  <2> QED
    BY <1>1, <1>4, <1>5, <1>6, <2>1, <2>2 DEF DoorInv, Added, Untouched, Has
<1>11. \A p \in Person, f \in Floor, k \in Nat : Entry(p, f, k)' <=> Entry(p, f, k)
    BY <1>1 DEF Entry, Told
<1>12. TripInv' /\ TokenInv'
    BY <1>1, <1>6, <1>11, NotingKept DEF TokenInv
<1>13. HandInv'
    BY <1>1, <1>6, NobodyServedKept
<1>14. ServeInv'
    BY <1>1, <1>7 DEF ServeInv, Present, VarTypes
<1> QED
    BY <1>7, <1>8, <1>9, <1>10, <1>12, <1>13, <1>14 DEF Ind

(* The next person is told: Noted becomes Answer. *)
LEMMA ServeStep == ASSUME Ind, Serve PROVE Ind'
<1>1. /\ serving = "serve" /\ serving' = "answer" /\ served < Len(Present)
      /\ ~Has(TheElevator, Door(currentFloor))
      /\ UNCHANGED <<pc, position, destination, tripCount, target, door, ended, currentFloor, queue, request, served,
                     personsForFloor>>
    BY DEF Serve, Serving, Pool!Received, Pool!hasMessage, Has, personVars, deviceVars
<1>2. /\ served \in Nat /\ currentFloor \in Floor /\ Present \in Seq(Person) /\ Present[served + 1] \in Person
      /\ served + 1 \in 1..Len(Present)
    BY <1>1 DEF Ind, VarTypes, Present
<1>3. PICK p \in Person, n \in Nat : n = served + 1 /\ p = Present[n]
    BY <1>2
<1>4. /\ Added(<<TheElevator, Passenger(p)>>, currentFloor)
      /\ \A pair : pair # <<TheElevator, Passenger(p)>> => Untouched(pair)
    BY <1>3, Sending DEF Serve
<1>5. /\ \A f \in Floor : Untouched(<<TheElevator, Door(f)>>)
      /\ Untouched(<<TheElevator, Engine>>) /\ Untouched(<<Engine, TheElevator>>)
      /\ \A q \in Person : /\ q # p => Untouched(<<TheElevator, Passenger(q)>>)
                           /\ Untouched(<<Passenger(q), TheElevator>>)
                           /\ \A c \in Buttons : Untouched(<<Passenger(q), c>>)
      /\ \A c \in Buttons : Untouched(<<c, TheElevator>>)
    BY <1>4, Keys
<1>6. VarTypes'
    BY <1>1 DEF Ind, VarTypes
<1>7. ChannelInv'
  <2>1. Carries(<<TheElevator, Passenger(p)>>, messages'[<<TheElevator, Passenger(p)>>])
    BY <1>2, <1>4 DEF Added, Carries
  <2> QED
    BY <1>4, <2>1, ChannelKept DEF Ind
<1>8. TripInv'
    BY <1>1 DEF Ind, TripInv, TripAt
<1>9. ErrandInv'
  <2>1. Resting'
    BY <1>1, <1>5 DEF Ind, ErrandInv, Resting, Untouched, Has
  <2> QED
    BY <1>1, <2>1 DEF Ind, ErrandInv
<1>10. DoorInv'
  <2>1. Up'
    BY <1>1 DEF Ind, DoorInv, Up
  <2> QED
    BY <1>1, <1>2, <1>5, <2>1 DEF Ind, DoorInv, Untouched, Has
<1>11. ServeInv'
    BY <1>1 DEF Ind, ServeInv, Present
<1>12. /\ \A q \in Person, f \in Floor, k \in Nat :
             f # currentFloor \/ k # n \/ q # p => (Entry(q, f, k)' <=> Entry(q, f, k))
       /\ Entry(p, currentFloor, n) /\ ~Entry(p, currentFloor, n)'
    BY <1>1, <1>2, <1>3 DEF Entry, Told, Present
<1>13. ASSUME NEW q \in Person
       PROVE  /\ Place(q) /\ (Waits(q)' <=> Waits(q)) /\ Wanted(q)' = Wanted(q)
              /\ (Waits(q) => Wanted(q) \in Floor)
              /\ \A c \in Buttons : (Has(Passenger(q), c)' <=> Has(Passenger(q), c)) /\ (Pressed(q, c)' <=> Pressed(q, c))
              /\ Has(Passenger(q), TheElevator)' <=> Has(Passenger(q), TheElevator)
    BY <1>1, <1>5, WantedFloor DEF Ind, TokenInv, Waits, Wanted, Untouched, Has, Pressed
<1>14. Noted(p) /\ Wanted(p) = currentFloor /\ OneEntry(p, currentFloor, n)
  <2>1. ~NoEntry(p)
    BY <1>2, <1>12 DEF NoEntry
  <2>2. Noted(p)
    BY <1>13, <2>1 DEF Place, Idle, Asked, Called, Answer
  <2> QED
    BY <1>2, <1>12, <2>2 DEF Noted, OneEntry
<1>15. TokenInv'
  <2>1. ASSUME NEW q \in Person, q # p PROVE Place(q)'
    <3>1. Has(TheElevator, Passenger(q))' <=> Has(TheElevator, Passenger(q))
        BY <1>5, <2>1 DEF Untouched, Has
    <3>2. \A f \in Floor, k \in Nat : Entry(q, f, k)' <=> Entry(q, f, k)
        BY <1>12, <2>1
    <3> QED
        BY <1>13, <3>1, <3>2, TokenFrame
  <2>2. Place(p)'
    <3>1. NoEntry(p)'
      <4>1. SUFFICES ASSUME NEW f \in Floor, NEW k \in Nat, Entry(p, f, k)'
                     PROVE  FALSE
        BY DEF NoEntry
      <4>2. f # currentFloor \/ k # n
        BY <1>1, <1>12, <4>1
      <4>3. Entry(p, f, k)
        BY <1>12, <4>1, <4>2
      <4> QED
        BY <1>14, <4>2, <4>3 DEF OneEntry
    <3>2. NoAsk(p)' /\ NoPress(p)' /\ ~NoAnswer(p)' /\ Waits(p)'
        BY <1>4, <1>13, <1>14 DEF Noted, NoAsk, NoPress, NoAnswer, Added, Has
    <3> QED
        BY <3>1, <3>2 DEF Place, Answer
  <2> QED
    BY <2>1, <2>2 DEF TokenInv
<1>16. HandInv'
  <2>1. ASSUME NEW q \in Person PROVE HandAt(q)'
    <3>1. pc'[q] \notin {"enter", "leave"} /\ ~Has(Passenger(q), TheElevator)'
        BY <1>1, <1>13, NobodyServed
    <3>2. q # p => ~Has(TheElevator, Passenger(q))'
        BY <1>1, <1>5, NobodyServed DEF Untouched, Has
    <3>3. Attended(p)' /\ Wanted(p)' = currentFloor'
        BY <1>1, <1>3, <1>13, <1>14 DEF Attended, Present
    <3> QED
        BY <3>1, <3>2, <3>3 DEF HandAt
  <2> QED
    BY <2>1 DEF HandInv
<1> QED
    BY <1>6, <1>7, <1>8, <1>9, <1>10, <1>11, <1>15, <1>16 DEF Ind

(* The person has answered, and has become Idle. *)
LEMMA AnsweredStep == ASSUME Ind, Answered PROVE Ind'
<1>1. /\ serving = "answer" /\ serving' = "serve" /\ served' = served + 1
      /\ UNCHANGED <<pc, position, destination, tripCount, target, door, ended, currentFloor, queue, request,
                     personsForFloor>>
    BY DEF Answered, Serving, personVars, deviceVars
<1>2. /\ served \in Nat /\ currentFloor \in Floor /\ Present \in Seq(Person) /\ served < Len(Present)
    BY <1>1 DEF Ind, VarTypes, ServeInv, Present
<1>3. PICK p \in Person : p = Present[served + 1]
    BY <1>2
<1>4. /\ Has(Passenger(p), TheElevator) /\ ~Has(Passenger(p), TheElevator)' /\ ~Has(TheElevator, Passenger(p))
      /\ \A pair : pair # <<Passenger(p), TheElevator>> => Untouched(pair)
    BY <1>3, Getting DEF Answered, Pool!Received, Pool!hasMessage, Has
<1>5. /\ \A f \in Floor : Untouched(<<TheElevator, Door(f)>>)
      /\ Untouched(<<TheElevator, Engine>>) /\ Untouched(<<Engine, TheElevator>>)
      /\ \A q \in Person : /\ Untouched(<<TheElevator, Passenger(q)>>)
                           /\ q # p => Untouched(<<Passenger(q), TheElevator>>)
                           /\ \A c \in Buttons : Untouched(<<Passenger(q), c>>)
      /\ \A c \in Buttons : Untouched(<<c, TheElevator>>)
    BY <1>4, Keys
<1>6. VarTypes' /\ ServeInv'
    BY <1>1, <1>2 DEF Ind, VarTypes, ServeInv, Present
<1>7. ChannelInv'
    BY <1>4, ChannelKept DEF Ind, Has
<1>8. ErrandInv'
  <2>1. Resting'
    BY <1>1, <1>5 DEF Ind, ErrandInv, Resting, Untouched, Has
  <2> QED
    BY <1>1, <2>1 DEF Ind, ErrandInv
<1>9. DoorInv'
  <2>1. Up' /\ ~Has(TheElevator, Door(currentFloor))
    BY <1>1 DEF Ind, DoorInv, Up
  <2> QED
    BY <1>1, <1>2, <1>5, <2>1 DEF Ind, DoorInv, Untouched, Has
<1>10. \A q \in Person, f \in Floor, k \in Nat : Entry(q, f, k)' <=> Entry(q, f, k)
    BY <1>1 DEF Entry, Told
<1>11. TripInv' /\ TokenInv'
    BY <1>1, <1>5, <1>10, NotingKept DEF TokenInv
<1>12. HandInv'
  <2>1. ASSUME NEW q \in Person PROVE HandAt(q)'
    <3>1. HandAt(q) /\ (Attended(q) => q = p)
        BY <1>3 DEF Ind, HandInv, Attended
    <3>2. Has(TheElevator, Passenger(q))' <=> Has(TheElevator, Passenger(q))
        BY <1>5 DEF Untouched, Has
    <3>3. q # p => (Has(Passenger(q), TheElevator)' <=> Has(Passenger(q), TheElevator))
        BY <1>5 DEF Untouched, Has
    <3>4. /\ pc'[q] \notin {"enter", "leave"}
          /\ ~Has(TheElevator, Passenger(q))' /\ ~Has(Passenger(q), TheElevator)'
        BY <1>1, <1>4, <3>1, <3>2, <3>3 DEF HandAt
    <3> QED
        BY <3>4 DEF HandAt
  <2> QED
    BY <2>1 DEF HandInv
<1> QED
    BY <1>6, <1>7, <1>8, <1>9, <1>11, <1>12 DEF Ind

(* Everybody is told, and the door is told to shut. *)
LEMMA CloseDoorStep == ASSUME Ind, CloseDoor PROVE Ind'
<1>1. /\ serving = "serve" /\ serving' = "close" /\ served = Len(Present)
      /\ ~Has(TheElevator, Door(currentFloor))
      /\ UNCHANGED <<pc, position, destination, tripCount, target, door, ended, currentFloor, queue, request, served,
                     personsForFloor>>
    BY DEF CloseDoor, Serving, Pool!Received, Pool!hasMessage, Has, personVars, deviceVars
<1>2. PICK floor \in Floor : floor = currentFloor
    BY DEF Ind, VarTypes
<1>3. /\ Added(<<TheElevator, Door(floor)>>, FALSE)
      /\ \A pair : pair # <<TheElevator, Door(floor)>> => Untouched(pair)
    BY <1>2, Sending DEF CloseDoor
<1>4. /\ \A f \in Floor : f # floor => Untouched(<<TheElevator, Door(f)>>)
      /\ Untouched(<<TheElevator, Engine>>) /\ Untouched(<<Engine, TheElevator>>)
      /\ \A q \in Person : /\ Untouched(<<TheElevator, Passenger(q)>>) /\ Untouched(<<Passenger(q), TheElevator>>)
                           /\ \A c \in Buttons : Untouched(<<Passenger(q), c>>)
      /\ \A c \in Buttons : Untouched(<<c, TheElevator>>)
    BY <1>3, Keys
<1>5. VarTypes' /\ ServeInv'
    BY <1>1 DEF Ind, VarTypes, ServeInv, Present
<1>6. ChannelInv'
  <2>1. Carries(<<TheElevator, Door(floor)>>, messages'[<<TheElevator, Door(floor)>>])
    BY <1>3 DEF Added, Carries
  <2> QED
    BY <1>3, <2>1, ChannelKept DEF Ind
<1>7. ErrandInv'
  <2>1. Resting'
    BY <1>1, <1>4 DEF Ind, ErrandInv, Resting, Untouched, Has
  <2> QED
    BY <1>1, <2>1 DEF Ind, ErrandInv
<1>8. DoorInv'
  <2>1. Up'
    BY <1>1 DEF Ind, DoorInv, Up
  <2>2. \A f \in Floor : f # floor => door[f] \in {"closing", "closed"} /\ ~Has(TheElevator, Door(f))
    BY <1>2 DEF Ind, DoorInv
  <2> QED
    BY <1>1, <1>2, <1>3, <1>4, <2>1, <2>2 DEF DoorInv, Added, Untouched, Has
<1>9. \A q \in Person, f \in Floor, k \in Nat : Entry(q, f, k)' <=> Entry(q, f, k)
    BY <1>1 DEF Entry, Told
<1>10. TripInv' /\ TokenInv'
    BY <1>1, <1>4, <1>9, NotingKept DEF TokenInv
<1>11. HandInv'
    BY <1>1, <1>4, NobodyServedKept
<1> QED
    BY <1>5, <1>6, <1>7, <1>8, <1>10, <1>11 DEF Ind

(* The list is cleared, its floor leaves the queue, and the engine gets the next. *)
LEMMA DepartStep == ASSUME Ind, Depart PROVE Ind'
<1>1. /\ serving = "close" /\ serving' = "wait" /\ served' = 0 /\ queue' = Tail(queue)
      /\ ~Has(TheElevator, Door(currentFloor))
      /\ UNCHANGED <<pc, position, destination, tripCount, target, door, ended, currentFloor, request>>
      /\ personsForFloor' = [personsForFloor EXCEPT ![currentFloor] = <<>>]
    BY DEF Depart, Serving, Pool!Received, Pool!hasMessage, Has, personVars, deviceVars
<1>2. /\ queue # <<>> /\ currentFloor = queue[1] /\ Resting /\ request = None
      /\ \A j, k \in 1..Len(queue) : queue[j] = queue[k] => j = k
      /\ \A f \in Floor : personsForFloor[f] # <<>> => \E k \in 1..Len(queue) : queue[k] = f
      /\ queue \in Seq(Floor) /\ currentFloor \in Floor
  <2>1. request = None /\ queue # <<>> /\ currentFloor = queue[1] /\ Resting
    BY <1>1 DEF Ind, ErrandInv
  <2>2. \A f \in Floor : personsForFloor[f] # <<>> /\ f # request => \E k \in 1..Len(queue) : queue[k] = f
    BY DEF Ind, ErrandInv
  <2>3. \A j, k \in 1..Len(queue) : queue[j] = queue[k] => j = k
    BY DEF Ind, ErrandInv
  <2>4. queue \in Seq(Floor) /\ currentFloor \in Floor
    BY DEF Ind, VarTypes
  <2> QED
    BY <2>1, <2>2, <2>3, <2>4, Floors
<1>3. /\ queue' \in Seq(Floor) /\ Len(queue') = Len(queue) - 1
      /\ \A k \in 1..Len(queue') : queue'[k] = queue[k + 1]
    BY <1>1, <1>2
<1>4. /\ personsForFloor'[currentFloor] = <<>>
      /\ \A f \in Floor : f # currentFloor => personsForFloor'[f] = personsForFloor[f]
    BY <1>1, <1>2 DEF Ind, VarTypes
<1>5. /\ \A pair : pair # <<TheElevator, Engine>> => Untouched(pair)
      /\ queue' = <<>> => Untouched(<<TheElevator, Engine>>)
      /\ queue' # <<>> => Added(<<TheElevator, Engine>>, queue'[1])
  <2>1. CASE queue' = <<>>
    BY <2>1 DEF Depart, Untouched
  <2>2. CASE queue' # <<>>
    BY <2>2, Sending DEF Depart
  <2> QED
    BY <2>1, <2>2
<1>6. /\ \A f \in Floor : Untouched(<<TheElevator, Door(f)>>)
      /\ Untouched(<<Engine, TheElevator>>)
      /\ \A q \in Person : /\ Untouched(<<TheElevator, Passenger(q)>>) /\ Untouched(<<Passenger(q), TheElevator>>)
                           /\ \A c \in Buttons : Untouched(<<Passenger(q), c>>)
      /\ \A c \in Buttons : Untouched(<<c, TheElevator>>)
    BY <1>5, Keys
<1>7. VarTypes'
    BY <1>1, <1>2, <1>3 DEF Ind, VarTypes
<1>8. ServeInv'
    BY <1>1 DEF ServeInv
<1>9. ChannelInv'
  <2>1. queue' # <<>> => Carries(<<TheElevator, Engine>>, messages'[<<TheElevator, Engine>>])
    BY <1>3, <1>5 DEF Added, Carries
  <2> QED
    BY <1>5, <2>1, ChannelKept DEF Ind
<1>10. ErrandInv'
  <2>1. ASSUME queue' = <<>> PROVE Resting'
    BY <1>1, <1>2, <1>5, <1>6, <2>1 DEF Resting, Untouched, Has
  <2>2. ASSUME queue' # <<>> PROVE Sent(queue[1])'
    BY <1>1, <1>2, <1>5, <1>6, <2>2 DEF Resting, Sent, Added, Untouched, Has
  <2>3. \A j, k \in 1..Len(queue') : queue'[j] = queue'[k] => j = k
    BY <1>2, <1>3
  <2>4. \A f \in Floor : personsForFloor'[f] # <<>> => \E k \in 1..Len(queue') : queue'[k] = f
    <3>1. SUFFICES ASSUME NEW f \in Floor, personsForFloor'[f] # <<>>
                   PROVE  \E k \in 1..Len(queue') : queue'[k] = f
        OBVIOUS
    <3>2. PICK k \in 1..Len(queue) : queue[k] = f
        BY <1>2, <1>4, <3>1
    <3>3. k - 1 \in 1..Len(queue') /\ queue'[k - 1] = f
        BY <1>2, <1>3, <1>4, <3>1, <3>2
    <3> QED
        BY <3>3
  <2> QED
    BY <1>1, <1>2, <2>1, <2>2, <2>3, <2>4 DEF ErrandInv
<1>11. DoorInv'
  <2>1. \A f \in Floor : door[f] \in {"closing", "closed"} /\ ~Has(TheElevator, Door(f))
    BY <1>1, <1>2 DEF Ind, VarTypes, DoorInv, Up
  <2> QED
    BY <1>1, <1>2, <1>6, <2>1 DEF DoorInv, Untouched, Has
<1>12. \A q \in Person, f \in Floor, k \in Nat : Entry(q, f, k)' <=> Entry(q, f, k)
  <2>1. served = Len(personsForFloor[currentFloor])
    BY <1>1 DEF Ind, ServeInv, Present
  <2> QED
    BY <1>1, <1>2, <1>4, <2>1 DEF Entry, Told
<1>13. TripInv' /\ TokenInv'
    BY <1>1, <1>6, <1>12, NotingKept DEF TokenInv
<1>14. HandInv'
    BY <1>1, <1>6, NobodyServedKept
<1> QED
    BY <1>7, <1>8, <1>9, <1>10, <1>11, <1>13, <1>14 DEF Ind

---------------------------------------------------------------------------------

(* Ind holds in the beginning. *)
LEMMA IndInit == Init => Ind
<1> SUFFICES ASSUME Init PROVE Ind
    OBVIOUS
<1> USE Floors
<1>1. /\ \A a, b : ~Has(a, b)
      /\ messages = <<>>
    BY DEF Init, Pool!Init, Has
<1>2. VarTypes
    BY SimulatorAssumption DEF Init, VarTypes
<1>3. ChannelInv
    BY <1>1 DEF ChannelInv
<1>4. TripInv /\ ServeInv /\ HandInv
    BY <1>1 DEF Init, TripInv, TripAt, ServeInv, HandInv, HandAt
<1>5. ErrandInv /\ DoorInv
    BY <1>1 DEF Init, ErrandInv, Resting, DoorInv
<1>6. TokenInv
  <2>1. \A p \in Person, f \in Floor, k \in Nat : ~Entry(p, f, k)
    BY DEF Init, Entry
  <2> QED
    BY <1>1, <2>1 DEF Init, TokenInv, Place, Idle, Waits, NoAsk, NoPress, NoEntry, NoAnswer, Pressed
<1> QED
    BY <1>2, <1>3, <1>4, <1>5, <1>6 DEF Ind

(* An interrupt changes nothing but which threads have ended. *)
LEMMA InterruptedStep == ASSUME Ind, NEW threads \in Interrupts, Interrupted(threads) PROVE Ind'
<1>1. /\ UNCHANGED <<messages, pc, position, destination, tripCount, serving, currentFloor, queue, request, served,
                     personsForFloor, target, door>>
      /\ ended' = ended \cup threads /\ threads \subseteq Service
    BY DEF Interrupted, Interrupts, Service, personVars, elevatorVars, deviceVars
<1>2. VarTypes' /\ ChannelInv'
    BY <1>1 DEF Ind, VarTypes, ChannelInv
<1>3. \A pair : Untouched(pair)
    BY <1>1 DEF Untouched
<1>4. TripInv' /\ ServeInv' /\ HandInv' /\ TokenInv'
    BY <1>1, <1>3, PersonsSame DEF SameLists
<1>5. ErrandInv' /\ DoorInv'
    BY <1>1, <1>3, ErrandFrame, DoorFrame DEF Ind
<1> QED
    BY <1>2, <1>4, <1>5 DEF Ind

(* Neither does a stuttering step. *)
LEMMA StutterStep == ASSUME Ind, UNCHANGED vars PROVE Ind'
<1>1. /\ UNCHANGED <<messages, pc, position, destination, tripCount, serving, currentFloor, queue, request, served,
                     personsForFloor, target, door, ended>>
    BY DEF vars, personVars, elevatorVars, deviceVars
<1>2. VarTypes' /\ ChannelInv'
    BY <1>1 DEF Ind, VarTypes, ChannelInv
<1>3. \A pair : Untouched(pair)
    BY <1>1 DEF Untouched
<1>4. TripInv' /\ ServeInv' /\ HandInv' /\ TokenInv'
    BY <1>1, <1>3, PersonsSame DEF SameLists
<1>5. ErrandInv' /\ DoorInv'
    BY <1>1, <1>3, ErrandFrame, DoorFrame DEF Ind
<1> QED
    BY <1>2, <1>4, <1>5 DEF Ind

(* All steps together. *)
LEMMA IndNext == ASSUME Ind, [Next]_vars PROVE Ind'
<1>1. ASSUME NEW p \in Person, PersonStep(p) PROVE Ind'
    BY <1>1, CallStep, MetStep, EnteredStep, ChooseStep, ArriveStep, OverStep DEF PersonStep
<1>2. ASSUME NEW b \in Buttons, Press(b) \/ ButtonEvent(b) PROVE Ind'
    BY <1>2, PressStep, ButtonEventStep
<1>3. CASE (\E f \in Floor : DoorStep(f)) \/ EngineStep
    BY <1>3, DoorStepKeeps, EngineStepKeeps
<1>4. CASE EngineStarted \/ EngineEvent \/ Serve \/ Answered \/ CloseDoor \/ Depart
    BY <1>4, EngineStartedStep, EngineEventStep, ServeStep, AnsweredStep, CloseDoorStep, DepartStep
<1>5. CASE \E threads \in Interrupts : Interrupted(threads)
    BY <1>5, InterruptedStep
<1>6. CASE UNCHANGED vars
    BY <1>6, StutterStep
<1> QED
    BY <1>1, <1>2, <1>3, <1>4, <1>5, <1>6 DEF Next, ElevatorStep, Over

(* Whatever the threads of the simulation do and in which order, Ind holds. *)
THEOREM Inductive == Spec => []Ind
<1>1. Ind /\ [Next]_vars => Ind'
    BY IndNext
<1> QED
    BY <1>1, IndInit, PTL DEF Spec

---------------------------------------------------------------------------------
(* What follows from the inductive invariant. *)

(* Errand, by where it is. *)
LEMMA ErrandOf ==
    ASSUME VarTypes, ChannelInv
    PROVE  /\ Resting => Errand = {}
           /\ \A f \in Floor : Sent(f) => Errand = {f}
<1>1. \A pair \in {<<TheElevator, Engine>>, <<Engine, TheElevator>>} :
        pair \in DOMAIN messages <=> (\/ pair = <<TheElevator, Engine>> /\ Has(TheElevator, Engine)
                                      \/ pair = <<Engine, TheElevator>> /\ Has(Engine, TheElevator))
    BY DEF Has
<1>2. Resting => Errand = {}
    BY <1>1 DEF Resting, Errand
<1>3. ASSUME NEW f \in Floor, Sent(f) PROVE Errand = {f}
    BY <1>1, <1>3, Floors DEF Sent, Errand
<1> QED
    BY <1>2, <1>3

(* The elevator serves the floor at the head of its queue, the engine is sent to
   that floor only and once, and rests only when no floor is queued: no
   queue.remove() of Elevator.loop removes a floor that was not served, and no
   order to the engine overwrites another in the pool. *)
THEOREM Queue == Spec => []QueueInv
<1>1. Ind => QueueInv
  <2> SUFFICES ASSUME Ind PROVE QueueInv
    OBVIOUS
  <2>1. TypeOK
    <3>1. ASSUME NEW pair \in DOMAIN messages
          PROVE  LET sender == pair[1]
                     dest   == pair[2]
                     msg    == messages[pair]
                 IN  \/ sender[1] = "person" /\ dest \in Buttons \cup {TheElevator} /\ msg = TRUE
                     \/ sender \in Buttons /\ dest = TheElevator /\ msg \in Person \X Floor /\ msg[2] = sender[2]
                     \/ sender = TheElevator /\ dest[1] = "door" /\ msg \in BOOLEAN
                     \/ sender = TheElevator /\ dest[1] \in {"person", "engine"} /\ msg \in Floor
                     \/ sender = Engine /\ dest = TheElevator /\ msg \in Floor
      <4>1. Carries(pair, messages[pair])
        BY DEF Ind, ChannelInv
      <4> QED
        BY <4>1, Keys DEF Carries, Passenger, Door, Engine
    <3> QED
        BY <3>1 DEF Ind, VarTypes, TypeOK
  <2>2. IsInjective(queue)
    <3>1. DOMAIN queue = 1..Len(queue)
        BY DEF Ind, VarTypes
    <3>2. \A j, k \in 1..Len(queue) : queue[j] = queue[k] => j = k
        BY DEF Ind, ErrandInv
    <3>3. \A j, k \in DOMAIN queue : queue[j] = queue[k] => j = k
        BY <3>1, <3>2
    <3> QED
        BY <3>3 DEF IsInjective
  <2>3. queue \in Seq(Floor) /\ (queue # <<>> => queue[1] \in Floor /\ Head(queue) = queue[1])
    BY DEF Ind, VarTypes
  <2>4. {Head(queue) : x \in DOMAIN queue \cap {1}} = IF queue = <<>> THEN {} ELSE {queue[1]}
    BY <2>3
  <2>5. ASSUME serving = "started" PROVE queue = <<>> /\ Errand = {request}
    BY <2>5, ErrandOf DEF Ind, ErrandInv
  <2>6. ASSUME serving = "wait" PROVE Errand = {Head(queue) : x \in DOMAIN queue \cap {1}}
    BY <2>3, <2>4, <2>6, ErrandOf DEF Ind, ErrandInv
  <2>7. ASSUME serving \notin {"started", "wait"} PROVE queue # <<>> /\ currentFloor = Head(queue) /\ Errand = {}
    BY <2>3, <2>7, ErrandOf DEF Ind, VarTypes, ErrandInv
  <2>8. CASE serving = "started"
    BY <2>1, <2>2, <2>5, <2>8 DEF QueueInv
  <2>9. CASE serving = "wait"
    BY <2>1, <2>2, <2>6, <2>9 DEF QueueInv
  <2>10. CASE serving \notin {"started", "wait"}
    BY <2>1, <2>2, <2>7, <2>10 DEF QueueInv
  <2> QED
    BY <2>8, <2>9, <2>10
<1> QED
    BY <1>1, Inductive, PTL

(* The two sets that RequestInv counts, by the places of a request. *)
LEMMA PendingOf ==
    ASSUME Ind, NEW p \in Person
    PROVE  /\ \A x : x \in Messages(p) <=>
                \/ \E b \in Buttons : x = <<Passenger(p), b>> /\ Has(Passenger(p), b)
                \/ \E b \in Buttons : x = <<b, TheElevator>> /\ Pressed(p, b)
                \/ x = <<TheElevator, Passenger(p)>> /\ Has(TheElevator, Passenger(p))
           /\ \A x : x \in Listed(p) <=> \E f \in Floor, k \in Nat : x = <<f, k>> /\ Entry(p, f, k)
<1>1. ASSUME NEW x \in Messages(p)
      PROVE  \/ \E b \in Buttons : x = <<Passenger(p), b>> /\ Has(Passenger(p), b)
             \/ \E b \in Buttons : x = <<b, TheElevator>> /\ Pressed(p, b)
             \/ x = <<TheElevator, Passenger(p)>> /\ Has(TheElevator, Passenger(p))
  <2>1. x \in DOMAIN messages /\ Carries(x, messages[x])
    BY DEF Messages, Ind, ChannelInv
  <2>2. CASE x[1] = Passenger(p) /\ x[2] \in Buttons
    BY <2>1, <2>2, Keys DEF Carries, Has
  <2>3. CASE x[1] \in Buttons /\ messages[x][1] = p
    <3>1. PICK b \in Buttons, q \in Person : x = <<b, TheElevator>> /\ messages[x] = <<q, b[2]>>
        BY <2>1, <2>3, Keys DEF Carries
    <3>2. messages[x][1] = q
        BY <3>1
    <3>3. q = p
        BY <2>3, <3>2
    <3> QED
        BY <2>1, <3>1, <3>3 DEF Pressed, Has
  <2>4. CASE x = <<TheElevator, Passenger(p)>>
    BY <2>1, <2>4 DEF Has
  <2> QED
    BY <2>2, <2>3, <2>4 DEF Messages
<1>2. \A b \in Buttons : Has(Passenger(p), b) => <<Passenger(p), b>> \in Messages(p)
    BY DEF Messages, Has
<1>3. \A b \in Buttons : Pressed(p, b) => <<b, TheElevator>> \in Messages(p)
    BY DEF Messages, Pressed, Has
<1>4. Has(TheElevator, Passenger(p)) => <<TheElevator, Passenger(p)>> \in Messages(p)
    BY DEF Messages, Has
<1>5. \A f \in Floor, k \in Nat : k \in Entries(p, f) <=> Entry(p, f, k)
    BY DEF Entries, Entry, Ind, VarTypes
<1>6. \A f \in Floor : Entries(p, f) \subseteq Nat
    BY DEF Entries, Ind, VarTypes
<1>7. \A x : x \in Listed(p) <=> \E f \in Floor, k \in Nat : x = <<f, k>> /\ Entry(p, f, k)
    BY <1>5, <1>6 DEF Listed
<1> QED
    BY <1>1, <1>2, <1>3, <1>4, <1>7

(* A person that waits in Person.loop has asked exactly once and for the floor it
   wants, nothing of an earlier request is left when it does not wait, and a floor
   somebody is noted for is in the queue: no request is lost or served twice. *)
THEOREM Requests == Spec => []RequestInv
<1>1. Ind => RequestInv
  <2> SUFFICES ASSUME Ind PROVE RequestInv
    OBVIOUS
  <2>1. ASSUME NEW p \in Person
        PROVE  /\ Cardinality(Messages(p)) + Cardinality(Listed(p)) = IF pc[p] \in {"called", "riding"} THEN 1 ELSE 0
               /\ \A f \in Floor : Entries(p, f) # {} => f = Wanted(p)
    <3>1. ASSUME NEW S, NEW x, S = {x} PROVE Cardinality(S) = 1
        BY <3>1, FS_Singleton
    <3>2. ASSUME NEW S, S = {} PROVE Cardinality(S) = 0
        BY <3>2, FS_EmptySet
    <3>3. \A f \in Floor : Entries(p, f) # {} => \E k \in Nat : Entry(p, f, k)
        BY DEF Entries, Entry, Ind, VarTypes
    <3>4. CASE Idle(p)
      <4>1. Messages(p) = {} /\ Listed(p) = {} /\ ~Waits(p)
        BY <3>4, PendingOf DEF Idle, NoAsk, NoPress, NoEntry, NoAnswer
      <4>2. Cardinality(Messages(p)) = 0 /\ Cardinality(Listed(p)) = 0
        BY <3>2, <4>1
      <4> QED
        BY <3>3, <3>4, <4>1, <4>2 DEF Idle, NoEntry, Waits
    <3>5. CASE Asked(p)
      <4>1. PICK b \in Buttons : OneAsk(p, b)
        BY <3>5 DEF Asked
      <4>2. Messages(p) = {<<Passenger(p), b>>} /\ Listed(p) = {} /\ Waits(p)
        BY <3>5, <4>1, PendingOf DEF Asked, OneAsk, NoPress, NoEntry, NoAnswer
      <4>3. Cardinality(Messages(p)) = 1 /\ Cardinality(Listed(p)) = 0
        BY <3>1, <3>2, <4>2
      <4> QED
        BY <3>3, <3>5, <4>2, <4>3 DEF Asked, NoEntry, Waits
    <3>6. CASE Called(p)
      <4>1. PICK b \in Buttons : OnePress(p, b)
        BY <3>6 DEF Called
      <4>2. Messages(p) = {<<b, TheElevator>>} /\ Listed(p) = {} /\ Waits(p)
        BY <3>6, <4>1, PendingOf DEF Called, NoAsk, OnePress, NoEntry, NoAnswer
      <4>3. Cardinality(Messages(p)) = 1 /\ Cardinality(Listed(p)) = 0
        BY <3>1, <3>2, <4>2
      <4> QED
        BY <3>3, <3>6, <4>2, <4>3 DEF Called, NoEntry, Waits
    <3>7. CASE Noted(p)
      <4>1. PICK f \in Floor, k \in Nat : OneEntry(p, f, k) /\ f = Wanted(p)
        BY <3>7, WantedFloor DEF Noted, Ind
      <4>2. Messages(p) = {} /\ Listed(p) = {<<f, k>>} /\ Waits(p)
        BY <3>7, <4>1, PendingOf DEF Noted, NoAsk, NoPress, OneEntry, NoAnswer
      <4>3. Cardinality(Messages(p)) = 0 /\ Cardinality(Listed(p)) = 1
        BY <3>1, <3>2, <4>2
      <4> QED
        BY <3>3, <4>1, <4>2, <4>3 DEF OneEntry, Waits
    <3>8. CASE Answer(p)
      <4>1. Messages(p) = {<<TheElevator, Passenger(p)>>} /\ Listed(p) = {} /\ Waits(p)
        BY <3>8, PendingOf DEF Answer, NoAsk, NoPress, NoEntry, NoAnswer
      <4>2. Cardinality(Messages(p)) = 1 /\ Cardinality(Listed(p)) = 0
        BY <3>1, <3>2, <4>1
      <4> QED
        BY <3>3, <3>8, <4>1, <4>2 DEF Answer, NoEntry, Waits
    <3> QED
        BY <3>4, <3>5, <3>6, <3>7, <3>8 DEF Ind, TokenInv, Place
  <2>2. \A f \in Floor : personsForFloor[f] # <<>> => f = request \/ Contains(queue, f)
    BY DEF Ind, ErrandInv, Contains
  <2> QED
    BY <2>1, <2>2 DEF RequestInv
<1> QED
    BY <1>1, Inductive, PTL

---------------------------------------------------------------------------------
(* The elevator implements Lift. *)

(* The state of Lift, as Elevator maps it. *)
OpenDoors == {f \in Floor : door[f] \in {"opening", "open"}}
Whereabouts == [p \in Person |-> IF pc[p] \in {"inside", "riding", "leave"} THEN Inside ELSE position[p]]
TripsLeft == [p \in Person |-> IF pc[p] = "out" THEN tripCount[p] - 1 ELSE tripCount[p]]

(* What Lift calls open. *)
LEMMA OpenIs == Abstract!Open = OpenDoors
BY DEF Abstract!Open, OpenDoors

(* A door is open only where the car stands and while it serves that floor. *)
LEMMA DoorFacts ==
    ASSUME Ind
    PROVE  /\ OpenDoors \subseteq {currentFloor}
           /\ serving \in {"wait", "started"} => OpenDoors = {}
           /\ serving = "answer" => currentFloor \in OpenDoors
           /\ currentFloor \in Floor
BY DEF Ind, VarTypes, DoorInv, Up, OpenDoors

(* The engine rests while a floor is served, and the car is on that floor. *)
LEMMA RestFacts ==
    ASSUME Ind, serving \notin {"wait", "started"}
    PROVE  target = None /\ CarFloor = currentFloor /\ ~Has(Engine, TheElevator)
BY DEF Ind, VarTypes, ErrandInv, Resting, CarFloor, Has, Pool!hasMessage

(* The place of the car depends on the engine's message and on currentFloor alone. *)
LEMMA CarFrame ==
    ASSUME Untouched(<<Engine, TheElevator>>), currentFloor' = currentFloor
    PROVE  CarFloor' = CarFloor
BY DEF Untouched, CarFloor, Pool!hasMessage, Pool!Message

(* The initial states are initial states of Lift. *)
LEMMA LiftInit == Init => Abstract!Init
<1> SUFFICES ASSUME Init PROVE Abstract!Init
    OBVIOUS
<1>1. CarFloor = 0 /\ target = None /\ door = [f \in Floor |-> "closed"]
    BY DEF Init, Pool!Init, CarFloor, Pool!hasMessage
<1>2. Whereabouts = position /\ position \in [Person -> Floor]
    BY DEF Init, Whereabouts
<1>3. TripsLeft = [p \in Person |-> Trips]
    BY DEF Init, TripsLeft
<1> QED
    BY <1>1, <1>2, <1>3 DEF Abstract!Init, Whereabouts, TripsLeft

(* A step that moves neither the car nor a door nor a person. *)
LiftStutter == UNCHANGED <<CarFloor, target, door, Whereabouts, TripsLeft>>

(* Such a step is a stuttering step of Lift. *)
LEMMA StutterMaps == LiftStutter => UNCHANGED Abstract!vars
BY DEF LiftStutter, Abstract!vars, Whereabouts, TripsLeft

(* A person that goes on after enterElevator boards, one that goes on after
   leavingElevator alights, and no other step of a person shows in Lift. *)
LEMMA LiftPerson ==
    ASSUME Ind, NEW p \in Person, PersonStep(p)
    PROVE  Abstract!Board(p) \/ Abstract!Alight(p) \/ LiftStutter
<1>1. /\ UNCHANGED <<elevatorVars, deviceVars>>
      /\ HandAt(p) /\ Place(p) /\ TripAt(p)
      /\ \A q \in Person : q # p => pc'[q] = pc[q]
    BY Going DEF PersonStep, Call, Met, Entered, Choose, Arrive, Left, TripOver, AllTripsDone
<1>2. /\ target' = target /\ door' = door
      /\ CarFloor' = CarFloor
  <2>1. Untouched(<<Engine, TheElevator>>)
    <3> USE Keys
    <3>1. CASE Met(p) \/ Arrive(p)
        BY <3>1, Getting DEF Met, Arrive
    <3>2. CASE Call(p)
      <4>1. \A pair : pair # <<Passenger(p), FloorButton(position[p])>> => Untouched(pair)
        BY <3>2, Sending DEF Call
      <4> QED
        BY <4>1
    <3>3. CASE Entered(p) \/ Left(p)
      <4>1. \A pair : pair # <<Passenger(p), TheElevator>> => Untouched(pair)
        BY <3>3, Sending DEF Entered, Left
      <4> QED
        BY <4>1
    <3>4. CASE Choose(p)
      <4>1. PICK f \in Floor : Pool!Send(Passenger(p), ElevatorButton(f), TRUE)
        BY <3>4 DEF Choose
      <4>2. \A pair : pair # <<Passenger(p), ElevatorButton(f)>> => Untouched(pair)
        BY <4>1, Sending
      <4> QED
        BY <4>2
    <3>5. CASE TripOver(p) \/ AllTripsDone(p)
        BY <3>5 DEF TripOver, AllTripsDone, Untouched
    <3> QED
        BY <3>1, <3>2, <3>3, <3>4, <3>5 DEF PersonStep
  <2> QED
    BY <1>1, <2>1, CarFrame DEF elevatorVars, deviceVars
<1>3. \A q \in Person : q # p => position'[q] = position[q] /\ tripCount'[q] = tripCount[q]
    BY DEF PersonStep, Call, Met, Entered, Choose, Arrive, Left, TripOver, AllTripsDone, Ind, VarTypes
<1>4. \A q \in Person : q # p => Whereabouts'[q] = Whereabouts[q] /\ TripsLeft'[q] = TripsLeft[q]
    BY <1>1, <1>3 DEF Whereabouts, TripsLeft
<1>5. /\ Whereabouts = [q \in Person |-> Whereabouts[q]] /\ Whereabouts' = [q \in Person |-> Whereabouts'[q]]
      /\ TripsLeft = [q \in Person |-> TripsLeft[q]] /\ TripsLeft' = [q \in Person |-> TripsLeft'[q]]
    BY DEF Whereabouts, TripsLeft
<1>6. ASSUME Whereabouts'[p] = Whereabouts[p], TripsLeft'[p] = TripsLeft[p]
      PROVE  LiftStutter
    BY <1>2, <1>4, <1>5, <1>6 DEF LiftStutter
<1>7. CASE Entered(p)
  <2>1. /\ pc[p] = "enter" /\ pc'[p] = "inside" /\ tripCount' = tripCount
        /\ position[p] = currentFloor /\ currentFloor \in OpenDoors /\ tripCount[p] \in Nat \ {0}
        /\ target = None /\ CarFloor = currentFloor
    BY <1>1, <1>7, Going, DoorFacts, RestFacts DEF Entered, HandAt, Attended, TripAt, Ind, VarTypes
  <2>2. /\ Whereabouts[p] = currentFloor /\ Whereabouts'[p] = Inside
        /\ TripsLeft[p] = tripCount[p] /\ TripsLeft'[p] = TripsLeft[p] /\ TripsLeft[p] > 0
    BY <2>1 DEF Whereabouts, TripsLeft
  <2>3. Whereabouts' = [Whereabouts EXCEPT ![p] = Inside] /\ TripsLeft' = TripsLeft
    BY <1>4, <1>5, <2>2
  <2> QED
    BY <1>2, <2>1, <2>2, <2>3, OpenIs DEF Abstract!Board, Whereabouts, TripsLeft
<1>8. CASE Left(p)
  <2>1. /\ pc[p] = "leave" /\ pc'[p] = "out" /\ tripCount' = tripCount /\ position' = position
        /\ position[p] = currentFloor /\ currentFloor \in OpenDoors
        /\ target = None /\ CarFloor = currentFloor
    BY <1>1, <1>8, Going, DoorFacts, RestFacts DEF Left, HandAt, Attended
  <2>2. /\ Whereabouts[p] = Inside /\ Whereabouts'[p] = currentFloor
        /\ TripsLeft'[p] = TripsLeft[p] - 1
    BY <2>1 DEF Whereabouts, TripsLeft
  <2>3. Whereabouts' = [Whereabouts EXCEPT ![p] = currentFloor] /\ TripsLeft' = [TripsLeft EXCEPT ![p] = @ - 1]
    BY <1>4, <1>5, <2>2
  <2> QED
    BY <1>2, <2>1, <2>2, <2>3, OpenIs DEF Abstract!Alight, Whereabouts, TripsLeft
<1>9. CASE TripOver(p)
  <2>1. /\ pc[p] = "out" /\ pc'[p] = "home" /\ position' = position /\ tripCount'[p] = tripCount[p] - 1
    BY <1>9, Going DEF TripOver, Ind, VarTypes
  <2> QED
    BY <1>6, <2>1 DEF Whereabouts, TripsLeft
<1>10. CASE Arrive(p)
  <2>1. pc[p] = "riding" /\ pc'[p] = "leave" /\ tripCount' = tripCount
    BY <1>10, Going DEF Arrive
  <2> QED
    BY <1>6, <2>1 DEF Whereabouts, TripsLeft
<1>11. CASE Call(p) \/ Met(p) \/ Choose(p) \/ AllTripsDone(p)
  <2>1. /\ \/ pc[p] \in {"home", "called"} /\ pc'[p] \in {"called", "enter", "over"}
           \/ pc[p] = "inside" /\ pc'[p] = "riding"
        /\ UNCHANGED <<position, tripCount>>
    BY <1>11, Going DEF Call, Met, Choose, AllTripsDone
  <2> QED
    BY <1>6, <2>1 DEF Whereabouts, TripsLeft
<1> QED
    BY <1>7, <1>8, <1>9, <1>10, <1>11 DEF PersonStep

(* A door that takes its message begins to open or to shut, and one that has slept
   is open or shut. *)
LEMMA LiftDoor ==
    ASSUME Ind, NEW f \in Floor, DoorStep(f)
    PROVE  Abstract!BeginToOpen \/ Abstract!BeginToClose \/ Abstract!Opened(f) \/ Abstract!Closed(f)
<1>1. /\ UNCHANGED <<pc, position, tripCount, currentFloor, serving, target>>
      /\ Whereabouts' = Whereabouts /\ TripsLeft' = TripsLeft
    BY DEF DoorStep, personVars, elevatorVars, Whereabouts, TripsLeft
<1>2. CarFloor' = CarFloor
  <2>1. \A pair : pair # <<TheElevator, Door(f)>> => Untouched(pair)
    BY Getting DEF DoorStep, Untouched
  <2>2. Untouched(<<Engine, TheElevator>>)
    BY <2>1, Keys
  <2> QED
    BY <1>1, <2>2, CarFrame
<1>3. CASE /\ door[f] \in {"open", "closed"}
           /\ Pool!Get(TheElevator, Door(f))
           /\ door' = [door EXCEPT ![f] = IF Pool!Message(TheElevator, Door(f)) THEN "opening" ELSE "closing"]
  <2>1. Has(TheElevator, Door(f))
    BY <1>3, Getting
  <2>2. /\ f = currentFloor /\ messages[<<TheElevator, Door(f)>>] = (serving = "serve")
        /\ serving \notin {"wait", "started"}
    BY <2>1 DEF Ind, DoorInv
  <2>3. target = None /\ CarFloor = f
    BY <2>2, RestFacts
  <2>4. CASE serving = "serve"
    <3>1. ~Up
        BY <2>1, <2>2, <2>4 DEF Ind, DoorInv
    <3>2. door[f] = "closed"
        BY <1>3, <2>2, <3>1 DEF Up
    <3>3. OpenDoors = {}
        BY <2>2, <3>2, DoorFacts DEF OpenDoors
    <3>4. door' = [door EXCEPT ![f] = "opening"]
        BY <1>3, <2>2, <2>4 DEF Pool!Message
    <3> QED
        BY <1>1, <1>2, <2>3, <3>2, <3>3, <3>4, OpenIs DEF Abstract!BeginToOpen, Whereabouts, TripsLeft
  <2>5. CASE serving # "serve"
    <3>1. Up
        BY <2>1, <2>2, <2>5 DEF Ind, VarTypes, DoorInv
    <3>2. door[f] = "open"
        BY <1>3, <2>2, <3>1 DEF Up
    <3>3. door' = [door EXCEPT ![f] = "closing"]
        BY <1>3, <2>2, <2>5 DEF Pool!Message
    <3> QED
        BY <1>1, <1>2, <2>3, <3>2, <3>3 DEF Abstract!BeginToClose, Whereabouts, TripsLeft
  <2> QED
    BY <2>4, <2>5
<1>4. CASE /\ door[f] \in {"opening", "closing"}
           /\ door' = [door EXCEPT ![f] = IF @ = "opening" THEN "open" ELSE "closed"]
           /\ UNCHANGED messages
  <2>1. CASE door[f] = "opening"
    <3>1. f = currentFloor /\ serving \notin {"wait", "started"}
        BY <2>1 DEF Ind, DoorInv
    <3>2. target = None /\ CarFloor = f
        BY <3>1, RestFacts
    <3>3. door' = [door EXCEPT ![f] = "open"]
        BY <1>4, <2>1
    <3> QED
        BY <1>1, <1>2, <2>1, <3>2, <3>3 DEF Abstract!Opened, Whereabouts, TripsLeft
  <2>2. CASE door[f] = "closing"
    <3>1. door' = [door EXCEPT ![f] = "closed"]
        BY <1>4, <2>2
    <3> QED
        BY <1>1, <1>2, <2>2, <3>1 DEF Abstract!Closed, Whereabouts, TripsLeft
  <2> QED
    BY <1>4, <2>1, <2>2
<1> QED
    BY <1>3, <1>4 DEF DoorStep

(* The engine starts when it takes its errand: then no floor is served, so no door
   is open. It has brought the car there when it tells the elevator. *)
LEMMA LiftEngine ==
    ASSUME Ind, EngineStep
    PROVE  Abstract!Start \/ Abstract!Stop
<1>1. /\ UNCHANGED <<pc, position, tripCount, currentFloor, door>>
      /\ Whereabouts' = Whereabouts /\ TripsLeft' = TripsLeft
    BY DEF EngineStep, personVars, elevatorVars, Whereabouts, TripsLeft
<1>2. CASE /\ target = None
           /\ Pool!Get(TheElevator, Engine)
           /\ target' = Pool!Message(TheElevator, Engine)
  <2>1. Has(TheElevator, Engine)
    BY <1>2, Getting
  <2>2. serving \in {"wait", "started"}
    BY <2>1 DEF Ind, VarTypes, ErrandInv, Resting
  <2>3. target' \in Floor
    BY <1>2, <2>1, Keys DEF Pool!Message, Ind, ChannelInv, Carries, Has
  <2>4. Untouched(<<Engine, TheElevator>>)
    BY <1>2, Getting, Keys
  <2>5. CarFloor' = CarFloor
    BY <1>1, <2>4, CarFrame
  <2> QED
    BY <1>1, <1>2, <2>2, <2>3, <2>5, DoorFacts, OpenIs DEF Abstract!Start, Whereabouts, TripsLeft
<1>3. CASE /\ target # None
           /\ Pool!Send(Engine, TheElevator, target)
           /\ target' = None
  <2>1. Added(<<Engine, TheElevator>>, target)
    BY <1>3, Sending
  <2>2. CarFloor' = target
    BY <2>1 DEF Added, CarFloor, Pool!hasMessage, Pool!Message
  <2> QED
    BY <1>1, <1>3, <2>2 DEF Abstract!Stop, Whereabouts, TripsLeft
<1> QED
    BY <1>2, <1>3 DEF EngineStep

(* The elevator hears from the engine that the car is where it is. *)
LEMMA LiftEvent == ASSUME Ind, EngineEvent PROVE LiftStutter
<1>1. /\ UNCHANGED <<pc, position, tripCount, door, target>>
      /\ currentFloor' = messages[<<Engine, TheElevator>>]
    BY DEF EngineEvent, Serving, personVars, deviceVars, Pool!Message
<1>2. Has(Engine, TheElevator) /\ ~Has(Engine, TheElevator)'
    BY Passing, Keys DEF EngineEvent
<1>3. CarFloor' = CarFloor
    BY <1>1, <1>2 DEF CarFloor, Has, Pool!hasMessage, Pool!Message
<1> QED
    BY <1>1, <1>3 DEF LiftStutter, Whereabouts, TripsLeft

(* No other step shows in Lift. *)
LEMMA LiftOther ==
    ASSUME Ind,
           \/ \E b \in Buttons : Press(b) \/ ButtonEvent(b)
           \/ EngineStarted \/ Serve \/ Answered \/ CloseDoor \/ Depart
           \/ \E threads \in Interrupts : Interrupted(threads)
           \/ UNCHANGED vars
    PROVE  LiftStutter
<1>1. UNCHANGED <<pc, position, tripCount, currentFloor, door, target>>
    BY DEF Press, ButtonEvent, EngineStarted, Serve, Answered, CloseDoor, Depart, Interrupted, Serving,
           vars, personVars, elevatorVars, deviceVars
<1>2. Untouched(<<Engine, TheElevator>>)
  <2>1. ASSUME NEW b \in Buttons, Press(b) PROVE Untouched(<<Engine, TheElevator>>)
    <3>1. PICK p \in Person : Pool!GetAndSend(Passenger(p), b, TheElevator, <<p, b[2]>>)
        BY <2>1 DEF Press
    <3>2. Passenger(p) # b /\ Passenger(p) # Engine /\ b # Engine
        BY Keys
    <3>3. \A pair : pair # <<Passenger(p), b>> /\ pair # <<b, TheElevator>> => Untouched(pair)
        BY <3>1, <3>2, Passing
    <3> QED
        BY <3>2, <3>3
  <2>2. ASSUME NEW b \in Buttons, ButtonEvent(b) PROVE Untouched(<<Engine, TheElevator>>)
    <3>1. b # TheElevator /\ b # Engine /\ TheElevator # Engine
        BY Keys
    <3>2. PICK floor : \/ Pool!GetAndSend(b, TheElevator, Engine, floor)
                       \/ Pool!Get(b, TheElevator)
        BY <2>2 DEF ButtonEvent
    <3>3. CASE Pool!GetAndSend(b, TheElevator, Engine, floor)
      <4>1. \A pair : pair # <<b, TheElevator>> /\ pair # <<TheElevator, Engine>> => Untouched(pair)
        BY <3>1, <3>3, Passing
      <4> QED
        BY <3>1, <4>1
    <3>4. CASE Pool!Get(b, TheElevator)
      <4>1. \A pair : pair # <<b, TheElevator>> => Untouched(pair)
        BY <3>4, Getting
      <4> QED
        BY <3>1, <4>1
    <3> QED
        BY <3>2, <3>3, <3>4
  <2>3. CASE Serve \/ Answered \/ CloseDoor \/ Depart
    <3> USE Keys
    <3>1. CASE Serve
      <4>1. PICK key : Pool!Send(TheElevator, key, currentFloor)
        BY <3>1 DEF Serve
      <4>2. \A pair : pair # <<TheElevator, key>> => Untouched(pair)
        BY <4>1, Sending
      <4> QED
        BY <4>2
    <3>2. CASE Answered
      <4>1. PICK n : n = served + 1 /\ Pool!Get(Passenger(Present[n]), TheElevator)
        BY <3>2 DEF Answered
      <4>2. served \in Nat /\ served < Len(Present) /\ Present \in Seq(Person)
        BY <3>2 DEF Answered, Serving, Present, Ind, VarTypes, ServeInv
      <4>3. n \in 1..Len(Present)
        BY <4>1, <4>2
      <4>4. PICK p \in Person : p = Present[n]
        BY <4>2, <4>3
      <4>5. \A pair : pair # <<Passenger(p), TheElevator>> => Untouched(pair)
        BY <4>1, <4>4, Getting
      <4> QED
        BY <4>5
    <3>3. CASE CloseDoor
      <4>1. \A pair : pair # <<TheElevator, Door(currentFloor)>> => Untouched(pair)
        BY <3>3, Sending DEF CloseDoor
      <4> QED
        BY <4>1
    <3>4. CASE Depart
      <4>1. PICK floor : UNCHANGED messages \/ Pool!Send(TheElevator, Engine, floor)
        BY <3>4 DEF Depart
      <4>2. CASE UNCHANGED messages
        BY <4>2 DEF Untouched
      <4>3. CASE Pool!Send(TheElevator, Engine, floor)
        <5>1. \A pair : pair # <<TheElevator, Engine>> => Untouched(pair)
            BY <4>3, Sending
        <5> QED
            BY <5>1
      <4> QED
        BY <4>1, <4>2, <4>3
    <3> QED
        BY <2>3, <3>1, <3>2, <3>3, <3>4
  <2>4. CASE EngineStarted \/ (\E threads \in Interrupts : Interrupted(threads)) \/ UNCHANGED vars
    BY <2>4 DEF EngineStarted, Interrupted, vars, Untouched
  <2> QED
    BY <2>1, <2>2, <2>3, <2>4
<1>3. CarFloor' = CarFloor
    BY <1>1, <1>2, CarFrame
<1> QED
    BY <1>1, <1>3 DEF LiftStutter, Whereabouts, TripsLeft

(* The simulation implements Lift: the engine never starts while a door is open or
   opening, no door starts to open or to shut while it moves, and persons get in and
   out only while it rests, at the car's floor, which is the floor they want, and
   before its door starts to shut. Elevator.loop has that from sendLock and waitFrom
   alone. *)
THEOREM ImplementsLift == Spec => LiftSpec
<1>1. Ind /\ Ind' /\ [Next]_vars => [Abstract!Next]_(Abstract!vars)
  <2> SUFFICES ASSUME Ind, Ind', [Next]_vars PROVE [Abstract!Next]_(Abstract!vars)
    OBVIOUS
  <2>1. ASSUME NEW p \in Person, PersonStep(p) PROVE [Abstract!Next]_(Abstract!vars)
    BY <2>1, LiftPerson, StutterMaps DEF Abstract!Next
  <2>2. ASSUME NEW f \in Floor, DoorStep(f) PROVE [Abstract!Next]_(Abstract!vars)
    BY <2>2, LiftDoor DEF Abstract!Next
  <2>3. CASE EngineStep
    BY <2>3, LiftEngine DEF Abstract!Next
  <2>4. CASE EngineEvent
    BY <2>4, LiftEvent, StutterMaps
  <2>5. CASE \/ \E b \in Buttons : Press(b) \/ ButtonEvent(b)
             \/ EngineStarted \/ Serve \/ Answered \/ CloseDoor \/ Depart
             \/ \E threads \in Interrupts : Interrupted(threads)
             \/ UNCHANGED vars
    BY <2>5, LiftOther, StutterMaps
  <2> QED
    BY <2>1, <2>2, <2>3, <2>4, <2>5 DEF Next, ElevatorStep, Over
<1> QED
    BY <1>1, LiftInit, Inductive, PTL DEF Spec, LiftSpec, Abstract!Spec
=================================================================================
