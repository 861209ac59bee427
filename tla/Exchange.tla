------------------------------ MODULE Exchange ------------------------------
(***************************************************************************)
(* What a caller of Client.h and an action of RequestHandler.h rely on:    *)
(* requests reach the actions whole and in the order in which they were    *)
(* written, actions answer in any order, responses reach the callbacks     *)
(* whole and in the order in which they were written.  Wire.tla implements *)
(* it over a byte stream.                                                  *)
(***************************************************************************)
EXTENDS Naturals, Sequences

CONSTANTS Calls,          \* one request each
          Request(_),     \* the request of a call
          Response(_)     \* the responses an action may give to a call

VARIABLES requests,  \* written by the client, in order: [call, content]
          served,    \* handed to actions
          replies,   \* written by the server, in order
          received   \* handed to callbacks

vars == <<requests, served, replies, received>>

Message(call, content) == [call |-> call, content |-> content]
CallsOf(messages) == {messages[k].call : k \in DOMAIN messages}

Init == requests = <<>> /\ served = <<>> /\ replies = <<>> /\ received = <<>>

Send(call) == /\ call \notin CallsOf(requests)
              /\ requests' = Append(requests, Message(call, Request(call)))
              /\ UNCHANGED <<served, replies, received>>

Serve == /\ Len(served) < Len(requests)
         /\ served' = Append(served, requests[Len(served) + 1])
         /\ UNCHANGED <<requests, replies, received>>

Reply(call) == /\ call \in CallsOf(served) \ CallsOf(replies)
               /\ \E content \in Response(call) :
                     replies' = Append(replies, Message(call, content))
               /\ UNCHANGED <<requests, served, received>>

Receive == /\ Len(received) < Len(replies)
           /\ received' = Append(received, replies[Len(received) + 1])
           /\ UNCHANGED <<requests, served, replies>>

Next == Serve \/ Receive \/ \E call \in Calls : Send(call) \/ Reply(call)

Spec == Init /\ [][Next]_vars
=============================================================================
