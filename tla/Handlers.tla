-------------------------------- MODULE Handlers --------------------------------
(***************************************************************************)
(* Requests being served by the backend.  A handler is an async function: it *)
(* runs from one await to the next, and any other handler may run in between. *)
(* call[c] is the frame of the request in slot c: the await it has reached   *)
(* (at) and the local variables it goes on with.  The modules that extend    *)
(* this one add the tables their handlers read and write.  A behaviour       *)
(* serves one mix of operations, so that an instance covers many operations  *)
(* without running each of them against all the others.                      *)
(***************************************************************************)
CONSTANTS
    Calls,   \* slots of requests served at the same time
    Mixes,   \* sets of operations, by their first await, served together
    NULL     \* SQL's null, no value

VARIABLES call, mix

Idle == [at |-> "idle"]

HandlersInit == call = [c \in Calls |-> Idle] /\ mix \in Mixes

At(c, await) == call[c].at = await

Quiet == \A c \in Calls : At(c, "idle")

\* A request arrives and its handler starts with the given frame.
Receive(c, frame) ==
    /\ frame.at \in mix
    /\ At(c, "idle")
    /\ call' = [call EXCEPT ![c] = frame]

Goto(c, await) == call' = [call EXCEPT ![c].at = await]

\* The next await, with the row that was just read kept in a local variable.
Keep(c, await, row) == call' = [call EXCEPT ![c].at = await, ![c].row = row]

\* The handler answers, with a result or with an error.
End(c) == call' = [call EXCEPT ![c] = Idle]

\* The process dies between two awaits; nothing that was left to do is done.
Die(c) == ~At(c, "idle") /\ End(c)
=============================================================================
