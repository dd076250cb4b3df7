-------------------------------- MODULE Elevator --------------------------------
(***************************************************************************)
(* The elevator simulation of Comp 409/Assignment 4/src: the elevator, its *)
(* engine, a button on every floor and for every floor in the car, a door  *)
(* on every floor and the persons, each a thread of its own, which share   *)
(* nothing but the message pool. A step runs from one poll or sleep of a   *)
(* thread to the next: in between it reads at most one message and sends   *)
(* at most one, which nothing can disable.                                 *)
(***************************************************************************)
EXTENDS Naturals, Sequences, FiniteSets, SequencesExt

CONSTANTS Person,        (* the persons                                *)
          FloorCount,    (* ElevatorSimulator.FLOOR_COUNT              *)
          Trips,         (* passengerTripCount                         *)
          Inside         (* where a person is who is in the car (Lift) *)

ASSUME SimulatorAssumption == FloorCount \in Nat \ {0, 1} /\ Trips \in Nat

Floor == 0..(FloorCount - 1)

(* The processes, as keys of the pool. *)
Passenger(p)      == <<"person", p>>
FloorButton(f)    == <<"floor button", f>>
ElevatorButton(f) == <<"elevator button", f>>
Door(f)           == <<"door", f>>
TheElevator       == <<"elevator", 0>>
Engine            == <<"engine", 0>>

Buttons == {FloorButton(f) : f \in Floor} \cup {ElevatorButton(f) : f \in Floor}
Service == Buttons \cup {Door(f) : f \in Floor} \cup {TheElevator, Engine}

VARIABLES
    messages,
    pc,             (* the step of each person in Person.loop                   *)
    position,       (* Person.currentFloor                                      *)
    destination,    (* Person.loop: destination                                 *)
    tripCount,      (* Person.tripCount                                         *)
    serving,        (* the step of Elevator.loop                                *)
    currentFloor,   (* Elevator.currentFloor                                    *)
    queue,          (* Elevator.queue                                           *)
    request,        (* Elevator.loop: floor                                     *)
    served,         (* Elevator.loop: how many of personsForFloor are told      *)
    personsForFloor,
    target,         (* ElevatorEngine.loop: floor, None when it does not move   *)
    door,           (* what each door does: waits, or is in open() or close()   *)
    ended           (* the threads that have returned from Process.run          *)

Pool == INSTANCE MessagePool

personVars   == <<pc, position, destination, tripCount>>
elevatorVars == <<serving, currentFloor, queue, request, served, personsForFloor>>
deviceVars   == <<target, door>>
vars == <<messages, personVars, elevatorVars, deviceVars, ended>>

None == FloorCount   (* no floor *)

Init ==
    /\ Pool!Init
    /\ pc = [p \in Person |-> "home"]
    /\ position \in [Person -> Floor]
    /\ destination = [p \in Person |-> None]
    /\ tripCount = [p \in Person |-> Trips]
    /\ serving = "wait"
    /\ currentFloor = 0
    /\ queue = <<>>
    /\ request = None
    /\ served = 0
    /\ personsForFloor = [f \in Floor |-> <<>>]
    /\ target = None
    /\ door = [f \in Floor |-> "closed"]
    /\ ended = {}

---------------------------------------------------------------------------------
(* Person.java *)

Goto(p, from, to) ==
    /\ pc[p] = from
    /\ pc' = [pc EXCEPT ![p] = to]
    /\ UNCHANGED <<elevatorVars, deviceVars>>

Call(p) ==
    /\ tripCount[p] # 0
    /\ Goto(p, "home", "called")
    /\ Pool!Send(Passenger(p), FloorButton(position[p]), TRUE)
    /\ UNCHANGED <<position, destination, tripCount, ended>>

Met(p) ==
    /\ Goto(p, "called", "enter")
    /\ Pool!Received(Passenger(p), FloorButton(position[p]))
    /\ Pool!Get(TheElevator, Passenger(p))
    /\ UNCHANGED <<position, destination, tripCount, ended>>

(* After enterElevator. *)
Entered(p) ==
    /\ Goto(p, "enter", "inside")
    /\ Pool!Send(Passenger(p), TheElevator, TRUE)
    /\ UNCHANGED <<position, destination, tripCount, ended>>

Choose(p) ==
    /\ Goto(p, "inside", "riding")
    /\ Pool!Received(Passenger(p), TheElevator)
    /\ \E f \in Floor \ {position[p]} :
          /\ destination' = [destination EXCEPT ![p] = f]
          /\ Pool!Send(Passenger(p), ElevatorButton(f), TRUE)
    /\ UNCHANGED <<position, tripCount, ended>>

Arrive(p) ==
    /\ Goto(p, "riding", "leave")
    /\ Pool!Received(Passenger(p), ElevatorButton(destination[p]))
    /\ Pool!Get(TheElevator, Passenger(p))
    /\ position' = [position EXCEPT ![p] = destination[p]]
    /\ UNCHANGED <<destination, tripCount, ended>>

(* After leavingElevator. *)
Left(p) ==
    /\ Goto(p, "leave", "out")
    /\ Pool!Send(Passenger(p), TheElevator, TRUE)
    /\ UNCHANGED <<position, destination, tripCount, ended>>

TripOver(p) ==
    /\ Goto(p, "out", "home")
    /\ Pool!Received(Passenger(p), TheElevator)
    /\ tripCount' = [tripCount EXCEPT ![p] = @ - 1]
    /\ destination' = [destination EXCEPT ![p] = None]
    /\ UNCHANGED <<messages, position, ended>>

(* throw new InterruptedException(): Process.run returns. *)
AllTripsDone(p) ==
    /\ tripCount[p] = 0
    /\ Goto(p, "home", "over")
    /\ ended' = ended \cup {Passenger(p)}
    /\ UNCHANGED <<messages, position, destination, tripCount>>

PersonStep(p) ==
    \/ Call(p) \/ Met(p) \/ Entered(p) \/ Choose(p)
    \/ Arrive(p) \/ Left(p) \/ TripOver(p) \/ AllTripsDone(p)

---------------------------------------------------------------------------------
(* Button.java, Door.java and ElevatorEngine.java *)

(* A message may arrive in front of the loop of waitFrom(senders) or behind it,
   so any sender whose message is there can be the one that is found. *)
Press(button) ==
    /\ button \notin ended
    /\ Pool!Received(button, TheElevator)
    /\ \E p \in Person : Pool!GetAndSend(Passenger(p), button, TheElevator, <<p, button[2]>>)
    /\ UNCHANGED <<personVars, elevatorVars, deviceVars, ended>>

(* A door is in open() or close(), where it prints and sleeps, from the moment it
   has read the message. The elevator goes on from that moment: a person may be
   told its floor while the door opens, and the engine may start while it shuts. *)
DoorStep(f) ==
    /\ Door(f) \notin ended
    /\ \/ /\ door[f] \in {"open", "closed"}
          /\ Pool!Get(TheElevator, Door(f))
          /\ door' = [door EXCEPT ![f] = IF Pool!Message(TheElevator, Door(f)) THEN "opening" ELSE "closing"]
       \/ /\ door[f] \in {"opening", "closing"}
          /\ door' = [door EXCEPT ![f] = IF @ = "opening" THEN "open" ELSE "closed"]
          /\ UNCHANGED messages
    /\ UNCHANGED <<personVars, elevatorVars, target, ended>>

EngineStep ==
    /\ Engine \notin ended
    /\ \/ /\ target = None
          /\ Pool!Received(Engine, TheElevator)
          /\ Pool!Get(TheElevator, Engine)
          /\ target' = Pool!Message(TheElevator, Engine)
       \/ /\ target # None
          /\ Pool!Send(Engine, TheElevator, target)
          /\ target' = None
    /\ UNCHANGED <<personVars, elevatorVars, door, ended>>

---------------------------------------------------------------------------------
(* Elevator.java *)

Serving(from, to) ==
    /\ TheElevator \notin ended
    /\ serving = from
    /\ serving' = to
    /\ UNCHANGED <<personVars, deviceVars, ended>>

(* queue.add without the test for the floor. *)
EnqueueTwice(floor) == queue' = Append(queue, floor)

(* No queue.add. *)
NotEnqueued(floor) == UNCHANGED queue

Enqueue(floor) == queue' = IF Contains(queue, floor) THEN queue ELSE Append(queue, floor)

(* waitFrom returns a button's event; the engine is started for the first one. *)
ButtonEvent(button) ==
    LET event  == Pool!Message(button, TheElevator)
        person == event[1]
        floor  == event[2]
    IN  /\ Pool!Received(TheElevator, Engine)
        /\ Pool!hasMessage(button, TheElevator)
        /\ personsForFloor' = [personsForFloor EXCEPT ![floor] = Append(@, person)]
        /\ \/ /\ queue = <<>>
              /\ Serving("wait", "started")
              /\ Pool!GetAndSend(button, TheElevator, Engine, floor)
              /\ request' = floor
              /\ UNCHANGED queue
           \/ /\ queue # <<>>
              /\ Serving("wait", "wait")
              /\ Pool!Get(button, TheElevator)
              /\ Enqueue(floor)
              /\ UNCHANGED request
        /\ UNCHANGED <<currentFloor, served>>

EngineStarted ==
    /\ Serving("started", "wait")
    /\ Pool!Received(TheElevator, Engine)
    /\ Enqueue(request)
    /\ request' = None
    /\ UNCHANGED <<messages, currentFloor, served, personsForFloor>>

(* waitFrom returns the engine's event: arrived at its destination. *)
EngineEvent ==
    LET floor == Pool!Message(Engine, TheElevator)
    IN  /\ Serving("wait", "serve")
        /\ Pool!Received(TheElevator, Engine)
        /\ Pool!GetAndSend(Engine, TheElevator, Door(floor), TRUE)
        /\ currentFloor' = floor
        /\ served' = 0
        /\ UNCHANGED <<queue, request, personsForFloor>>

Present == personsForFloor[currentFloor]

(* sendLock(p, currentFloor) for the next person on the floor. *)
Serve ==
    /\ Pool!Received(TheElevator, Door(currentFloor))
    /\ served < Len(Present)
    /\ Serving("serve", "answer")
    /\ Pool!Send(TheElevator, Passenger(Present[served + 1]), currentFloor)
    /\ UNCHANGED <<currentFloor, queue, request, served, personsForFloor>>

(* The elevator does not wait for the person. *)
NotAnswered ==
    /\ Serving("answer", "serve")
    /\ Pool!Received(TheElevator, Passenger(Present[served + 1]))
    /\ served' = served + 1
    /\ UNCHANGED <<messages, currentFloor, queue, request, personsForFloor>>

Answered ==
    LET p == Present[served + 1]
    IN  /\ Serving("answer", "serve")
        /\ Pool!Received(TheElevator, Passenger(p))
        /\ Pool!Get(Passenger(p), TheElevator)
        /\ served' = served + 1
        /\ UNCHANGED <<currentFloor, queue, request, personsForFloor>>

CloseDoor ==
    /\ Pool!Received(TheElevator, Door(currentFloor))
    /\ served = Len(Present)
    /\ Serving("serve", "close")
    /\ Pool!Send(TheElevator, Door(currentFloor), FALSE)
    /\ UNCHANGED <<currentFloor, queue, request, served, personsForFloor>>

(* No queue.remove. *)
DepartAgain ==
    /\ Serving("close", "wait")
    /\ Pool!Received(TheElevator, Door(currentFloor))
    /\ personsForFloor' = [personsForFloor EXCEPT ![currentFloor] = <<>>]
    /\ served' = 0
    /\ Pool!Send(TheElevator, Engine, Head(queue))
    /\ UNCHANGED <<currentFloor, queue, request>>

(* The elevator does not wait until the door has read the message. *)
DepartAtOnce ==
    /\ Serving("close", "wait")
    /\ queue' = Tail(queue)
    /\ personsForFloor' = [personsForFloor EXCEPT ![currentFloor] = <<>>]
    /\ served' = 0
    /\ IF queue' = <<>> THEN UNCHANGED messages ELSE Pool!Send(TheElevator, Engine, Head(queue'))
    /\ UNCHANGED <<currentFloor, request>>

(* queue.remove, clear, and the next floor of the queue. *)
Depart ==
    /\ Serving("close", "wait")
    /\ Pool!Received(TheElevator, Door(currentFloor))
    /\ queue' = Tail(queue)
    /\ personsForFloor' = [personsForFloor EXCEPT ![currentFloor] = <<>>]
    /\ served' = 0
    /\ IF queue' = <<>> THEN UNCHANGED messages ELSE Pool!Send(TheElevator, Engine, Head(queue'))
    /\ UNCHANGED <<currentFloor, request>>

ElevatorStep ==
    \/ \E button \in Buttons : ButtonEvent(button)
    \/ EngineStarted \/ EngineEvent \/ Serve \/ Answered \/ CloseDoor \/ Depart

---------------------------------------------------------------------------------
(* ElevatorSimulator.java *)

PersonsOver == \A p \in Person : Passenger(p) \in ended

(* terminateInfiniteProcess: the interrupted thread is polling or asleep. The
   buttons, which have nothing left to do, end together. *)
Interrupted(threads) ==
    /\ PersonsOver
    /\ threads \cap ended = {}
    /\ ended' = ended \cup threads
    /\ UNCHANGED <<messages, personVars, elevatorVars, deviceVars>>

Interrupts == {Buttons} \cup {{process} : process \in Service \ Buttons}

Over == Service \subseteq ended /\ UNCHANGED vars

Next ==
    \/ \E p \in Person : PersonStep(p)
    \/ \E button \in Buttons : Press(button)
    \/ \E f \in Floor : DoorStep(f)
    \/ EngineStep
    \/ ElevatorStep
    \/ \E threads \in Interrupts : Interrupted(threads)
    \/ Over

Spec == Init /\ [][Next]_vars

(* The JVM runs a thread as long as there is one that is not waiting. *)
FairSpec == Spec /\ WF_vars(Next)

---------------------------------------------------------------------------------

(* The fields have their types, and every channel carries its own messages. *)
TypeOK ==
    /\ \A pair \in DOMAIN messages :
          LET sender == pair[1]
              dest   == pair[2]
              msg    == messages[pair]
          IN  \/ sender[1] = "person" /\ dest \in Buttons \cup {TheElevator} /\ msg = TRUE
              \/ sender \in Buttons /\ dest = TheElevator /\ msg \in Person \X Floor /\ msg[2] = sender[2]
              \/ sender = TheElevator /\ dest[1] = "door" /\ msg \in BOOLEAN
              \/ sender = TheElevator /\ dest[1] \in {"person", "engine"} /\ msg \in Floor
              \/ sender = Engine /\ dest = TheElevator /\ msg \in Floor
    /\ pc \in [Person -> {"home", "called", "enter", "inside", "riding", "leave", "out", "over"}]
    /\ position \in [Person -> Floor]
    /\ destination \in [Person -> Floor \cup {None}]
    /\ tripCount \in [Person -> 0..Trips]
    /\ serving \in {"wait", "started", "serve", "answer", "close"}
    /\ currentFloor \in Floor /\ request \in Floor \cup {None} /\ target \in Floor \cup {None}
    /\ queue \in Seq(Floor) /\ served \in Nat
    /\ personsForFloor \in [Floor -> Seq(Person)]
    /\ door \in [Floor -> {"closed", "opening", "open", "closing"}]
    /\ ended \subseteq Service \cup {Passenger(p) : p \in Person}

(* The floor the engine is told to go to, goes to, or has told the elevator about. *)
Errand ==
    ({target} \ {None})
      \cup {messages[pair] : pair \in DOMAIN messages \cap {<<TheElevator, Engine>>, <<Engine, TheElevator>>}}

(* The fields have their types. The elevator serves the floor at the head of its queue, the engine goes to that
   floor and to no other, and it rests only when the queue is empty; so
   queue.remove() removes the floor that was served, and no order to the engine
   is ever overwritten by the next. *)
QueueInv ==
    /\ TypeOK
    /\ IsInjective(queue)
    /\ CASE serving = "started" -> queue = <<>> /\ Errand = {request}
         [] serving = "wait"    -> Errand = {Head(queue) : x \in DOMAIN queue \cap {1}}
         [] OTHER               -> queue # <<>> /\ currentFloor = Head(queue) /\ Errand = {}

(* What there is of a person's request: its messages, and its entries in the
   lists of persons that the elevator has not told yet. *)
Messages(p) ==
    {pair \in DOMAIN messages :
        \/ pair[1] = Passenger(p) /\ pair[2] \in Buttons
        \/ pair[1] \in Buttons /\ messages[pair][1] = p
        \/ pair = <<TheElevator, Passenger(p)>>}

Told == IF serving = "answer" THEN served + 1 ELSE served

Entries(p, f) ==
    {k \in DOMAIN personsForFloor[f] :
        personsForFloor[f][k] = p /\ ~(serving \in {"serve", "answer", "close"} /\ f = currentFloor /\ k <= Told)}

Listed(p) == UNION {{f} \X Entries(p, f) : f \in Floor}

(* The floor a person waits for: to be picked up there, or to arrive there. *)
Wanted(p) == IF pc[p] = "called" THEN position[p] ELSE destination[p]

(* A person who waits has asked exactly once, at the floor that is wanted, and is
   told exactly once; a person who does not wait has nothing pending that would
   be taken for the answer to the next call; and every floor with a person on
   its list is in the queue. *)
RequestInv ==
    /\ \A p \in Person :
          Cardinality(Messages(p)) + Cardinality(Listed(p))
             = IF pc[p] \in {"called", "riding"} THEN 1 ELSE 0
    /\ \A p \in Person, f \in Floor : Entries(p, f) # {} => f = Wanted(p)
    /\ \A f \in Floor : personsForFloor[f] # <<>> => f = request \/ Contains(queue, f)

(* The floor of the car: the engine has arrived before the elevator hears of it. *)
CarFloor == IF Pool!hasMessage(Engine, TheElevator) THEN Pool!Message(Engine, TheElevator) ELSE currentFloor

(* The engine moves only when no door is open or opening (the one it left may still
   be shutting), and persons get in and out only while it rests, where the car
   stands, where they want to and before the door starts to shut: sendLock and the
   person's answer make the threads agree on that. *)
Abstract == INSTANCE Lift WITH
    at    <- CarFloor,
    to    <- target,
    Rest  <- None,
    where <- [p \in Person |-> IF pc[p] \in {"inside", "riding", "leave"} THEN Inside ELSE position[p]],
    trips <- [p \in Person |-> IF pc[p] = "out" THEN tripCount[p] - 1 ELSE tripCount[p]]

LiftSpec == Abstract!Spec

(* Every person makes all its trips, and then every thread ends. *)
Termination == <>(PersonsOver /\ Service \subseteq ended)
=================================================================================
