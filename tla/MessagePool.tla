------------------------------ MODULE MessagePool -------------------------------
(***************************************************************************)
(* MessagePool.java and the communication of Process.java (Comp 409/       *)
(* Assignment 4/src): a map from (sender, destination) to the message that *)
(* is on its way between them. sendLock is Send, after which the sender    *)
(* goes on once Received holds; waitFrom is Get. Both poll, so a step that *)
(* follows one of them is enabled when the polled condition holds.         *)
(***************************************************************************)
VARIABLE messages   (* MessagePool.messages *)

Init == messages = <<>>

hasMessage(sender, dest) == <<sender, dest>> \in DOMAIN messages

(* What the map holds after put, and after getMessage has removed the pair. *)
With(pool, sender, dest, msg) ==
    [pair \in DOMAIN pool \cup {<<sender, dest>>} |->
        IF pair = <<sender, dest>> THEN msg ELSE pool[pair]]

Without(pool, sender, dest) == [pair \in DOMAIN pool \ {<<sender, dest>>} |-> pool[pair]]

Message(sender, dest) == messages[<<sender, dest>>]

Received(sender, dest) == ~hasMessage(sender, dest)

Send(sender, dest, msg) == messages' = With(messages, sender, dest, msg)

Get(sender, dest) ==
    /\ hasMessage(sender, dest)
    /\ messages' = Without(messages, sender, dest)

(* waitFrom, and then sendLock to another process. *)
GetAndSend(sender, self, dest, msg) ==
    /\ hasMessage(sender, self)
    /\ messages' = With(Without(messages, sender, self), self, dest, msg)
=================================================================================
