----------------------------- MODULE RunCommand -----------------------------
(***************************************************************************)
(* runCommand (utils.go): how a session runs git-receive-pack or           *)
(* git-upload-pack. Three goroutines copy between the SSH session and the  *)
(* pipes of the child process, while the goroutine of the session waits    *)
(* for two of them and then for the child.                                 *)
(*                                                                         *)
(* Data is counted, not kept: a unit is what one read of io.Copy returns.  *)
(***************************************************************************)
EXTENDS Integers

CONSTANTS
    PipeSize,  \* how much a pipe of the operating system holds
    MaxInput,  \* bound: how much the client sends
    MaxOutput  \* bound: how much the child writes to each of its outputs

ASSUME RunCommandAssumption ==
    PipeSize \in Nat \ {0} /\ MaxInput \in Nat /\ MaxOutput \in Nat

Stream == {"stdout", "stderr"}
Pipe == Stream \cup {"stdin"}

VARIABLES
    pc,       \* runCommand: before Start, in wg.Wait, in cmd.Wait, returned, session closed
    client,   \* "open"; "eof" once it has no more input; "gone" once it is disconnected
    input,    \* what it has sent and nobody has read
    sent,     \* how much it has sent altogether
    child,    \* "none", "running" or "exited"
    plan,     \* what the child still means to write to each output
    wrote,    \* what it has written
    greedy,   \* whether it reads all its input before it ends
    pipe,     \* what is in each pipe
    writable, \* whether the write end of the pipe is open
    copier,   \* the three goroutines: "idle", "read", "write" (with a unit in hand), "done"
    delivered \* what was written to the session

clientVars == <<client, input, sent>>
childVars == <<child, plan, wrote, greedy>>
vars == <<pc, clientVars, childVars, pipe, writable, copier, delivered>>

-----------------------------------------------------------------------------
Init ==
    /\ pc = "start"
    /\ client = "open" /\ input = 0 /\ sent = 0
    /\ child = "none"
    /\ plan \in [Stream -> 0..MaxOutput]
    /\ wrote = [x \in Stream |-> 0]
    /\ greedy \in BOOLEAN
    /\ pipe = [x \in Pipe |-> 0]
    /\ writable = [x \in Pipe |-> FALSE]
    /\ copier = [x \in Pipe |-> "idle"]
    /\ delivered = [x \in Stream |-> 0]

\* A pipe that cannot be made or a command that cannot be started ends it.
StartFails ==
    /\ pc = "start"
    /\ pc' = "returned"
    /\ UNCHANGED <<clientVars, childVars, pipe, writable, copier, delivered>>

Start ==
    /\ pc = "start"
    /\ pc' = "drain"
    /\ child' = "running"
    /\ writable' = [x \in Pipe |-> TRUE]
    /\ copier' = [x \in Pipe |-> "read"]
    /\ UNCHANGED <<clientVars, plan, wrote, greedy, pipe, delivered>>

OneTooMany(x) == pipe[x] <= PipeSize \* mutant
HasRoom(x) == pipe[x] < PipeSize

-----------------------------------------------------------------------------
(* The goroutines that copy the child's output                             *)

\* Reading from a pipe gives what is in it, or its end when nobody can write
\* to it any more.
ReadOutput(x) ==
    /\ copier[x] = "read"
    /\ \/ /\ pipe[x] > 0
          /\ pipe' = [pipe EXCEPT ![x] = @ - 1]
          /\ copier' = [copier EXCEPT ![x] = "write"]
       \/ /\ pipe[x] = 0 /\ ~writable[x]
          /\ copier' = [copier EXCEPT ![x] = "done"]
          /\ UNCHANGED pipe
    /\ UNCHANGED <<pc, clientVars, childVars, writable, delivered>>

\* The session takes it unless the client has gone; an error ends io.Copy.
WriteOutput(x) ==
    /\ copier[x] = "write"
    /\ IF client # "gone"
       THEN /\ delivered' = [delivered EXCEPT ![x] = @ + 1]
            /\ copier' = [copier EXCEPT ![x] = "read"]
       ELSE /\ copier' = [copier EXCEPT ![x] = "done"]
            /\ UNCHANGED delivered
    /\ UNCHANGED <<pc, clientVars, childVars, pipe, writable>>

-----------------------------------------------------------------------------
(* The goroutine that copies the client's input                            *)

KeepsStdin == writable \* mutant
CloseStdin == [writable EXCEPT !["stdin"] = FALSE]
ClientEnded == client # "open" \* mutant
\* Reading the input ends with it, or once the session is closed. What the close
\* does at once here is, in the SSH library, the end that a client answers with,
\* or the end of its connection when it is gone.
InputEnded == client # "open" \/ pc = "closed"

ReadInput ==
    /\ copier["stdin"] = "read"
    /\ \/ /\ input > 0
          /\ input' = input - 1
          /\ copier' = [copier EXCEPT !["stdin"] = "write"]
          /\ UNCHANGED writable
       \/ /\ input = 0 /\ InputEnded
          /\ copier' = [copier EXCEPT !["stdin"] = "done"]
          /\ writable' = CloseStdin
          /\ UNCHANGED input
    /\ UNCHANGED <<pc, client, sent, childVars, pipe, delivered>>

\* Writing blocks while the pipe is full and fails once the child has gone or
\* cmd.Wait has closed the pipe.
WriteInput ==
    /\ copier["stdin"] = "write"
    /\ \/ /\ child = "running" /\ writable["stdin"] /\ HasRoom("stdin")
          /\ pipe' = [pipe EXCEPT !["stdin"] = @ + 1]
          /\ copier' = [copier EXCEPT !["stdin"] = "read"]
          /\ UNCHANGED writable
       \/ /\ child = "exited" \/ ~writable["stdin"]
          /\ copier' = [copier EXCEPT !["stdin"] = "done"]
          /\ writable' = CloseStdin
          /\ UNCHANGED pipe
    /\ UNCHANGED <<pc, clientVars, childVars, delivered>>

-----------------------------------------------------------------------------
(* The goroutine of the session                                            *)

\* wg.Wait: the two goroutines for the output, not the one for the input.
OneDrained == \E x \in Stream : copier[x] = "done" \* mutant
Drained == \A x \in Stream : copier[x] = "done"

Drain ==
    /\ pc = "drain" /\ Drained
    /\ pc' = "wait"
    /\ UNCHANGED <<clientVars, childVars, pipe, writable, copier, delivered>>

\* cmd.Wait waits for the child, then closes this process's ends of the pipes.
Wait ==
    /\ pc = "wait" /\ child = "exited"
    /\ pc' = "returned"
    /\ writable' = CloseStdin
    /\ UNCHANGED <<clientVars, childVars, pipe, copier, delivered>>

\* handleSession sends the exit status and closes the session.
CloseSession ==
    /\ pc = "returned"
    /\ pc' = "closed"
    /\ UNCHANGED <<clientVars, childVars, pipe, writable, copier, delivered>>

-----------------------------------------------------------------------------
(* The child process and the client                                        *)

ChildReads ==
    /\ child = "running" /\ pipe["stdin"] > 0
    /\ pipe' = [pipe EXCEPT !["stdin"] = @ - 1]
    /\ UNCHANGED <<pc, clientVars, childVars, writable, copier, delivered>>

\* Writing blocks while the pipe is full. The read end stays open until
\* cmd.Wait, also when the goroutine that read from it has ended.
ChildWrites(x) ==
    /\ child = "running" /\ plan[x] > 0 /\ HasRoom(x)
    /\ plan' = [plan EXCEPT ![x] = @ - 1]
    /\ wrote' = [wrote EXCEPT ![x] = @ + 1]
    /\ pipe' = [pipe EXCEPT ![x] = @ + 1]
    /\ UNCHANGED <<pc, clientVars, child, greedy, writable, copier, delivered>>

StdinEnded == pipe["stdin"] = 0 /\ ~writable["stdin"]

\* The end of the process closes its ends of the pipes.
ChildEnds ==
    /\ child' = "exited"
    /\ writable' = [x \in Pipe |-> IF x \in Stream THEN FALSE ELSE writable[x]]
    /\ UNCHANGED <<pc, clientVars, plan, wrote, greedy, pipe, copier, delivered>>

ChildExits ==
    /\ child = "running"
    /\ \A x \in Stream : plan[x] = 0
    /\ greedy => StdinEnded
    /\ ChildEnds

\* It may also fail or be killed in the middle.
ChildFails == child = "running" /\ ChildEnds

ClientSends ==
    /\ client = "open" /\ sent < MaxInput
    /\ input' = input + 1 /\ sent' = sent + 1
    /\ UNCHANGED <<pc, client, childVars, pipe, writable, copier, delivered>>

ClientEnds ==
    /\ \/ client = "open" /\ client' \in {"eof", "gone"}
       \/ client = "eof" /\ client' = "gone"
    /\ UNCHANGED <<pc, input, sent, childVars, pipe, writable, copier, delivered>>

-----------------------------------------------------------------------------
\* All there is to do is done: the session is closed, nothing runs any more.
Finished ==
    /\ pc = "closed" /\ client = "gone"
    /\ child # "running" /\ \A x \in Pipe : copier[x] \in {"idle", "done"}
    /\ UNCHANGED vars

Copy == ReadInput \/ WriteInput \/ \E x \in Stream : ReadOutput(x) \/ WriteOutput(x)

Next ==
    \/ StartFails \/ Start \/ Drain \/ Wait \/ CloseSession
    \/ Copy
    \/ ChildReads \/ ChildExits \/ ChildFails \/ \E x \in Stream : ChildWrites(x)
    \/ ClientSends \/ ClientEnds
    \/ Finished

Spec == Init /\ [][Next]_vars

\* Goroutines are scheduled and the child works unless it is blocked. That a
\* session takes what is written to it needs a client that reads while it is
\* connected. Nobody has to send, to leave or to fail.
Fairness ==
    /\ WF_vars(StartFails \/ Start)
    /\ WF_vars(Drain) /\ WF_vars(Wait) /\ WF_vars(CloseSession)
    /\ WF_vars(ReadInput) /\ WF_vars(WriteInput)
    /\ \A x \in Stream :
          WF_vars(ReadOutput(x)) /\ WF_vars(WriteOutput(x)) /\ WF_vars(ChildWrites(x))
    /\ WF_vars(ChildReads) /\ WF_vars(ChildExits)

FairSpec == Spec /\ Fairness

-----------------------------------------------------------------------------
(* Properties                                                              *)

TypeOK ==
    /\ pc \in {"start", "drain", "wait", "returned", "closed"}
    /\ client \in {"open", "eof", "gone"} /\ input \in Nat /\ sent \in Nat
    /\ child \in {"none", "running", "exited"}
    /\ plan \in [Stream -> Nat] /\ wrote \in [Stream -> Nat] /\ greedy \in BOOLEAN
    /\ pipe \in [Pipe -> 0..PipeSize]
    /\ writable \in [Pipe -> BOOLEAN]
    /\ copier \in [Pipe -> {"idle", "read", "write", "done"}]
    /\ delivered \in [Stream -> Nat]

\* When runCommand returns, a client that is still there has been given all the
\* child has written, however the child ended ("Ensure all the output has been
\* written before we wait on the command to exit.").
OutputIsComplete ==
    pc \in {"returned", "closed"} /\ client # "gone" => delivered = wrote

\* A client that stays and ends its input gets its session closed: the end of
\* the input reaches the child through the goroutine nobody waits for.
SessionEnds == <>[](client = "eof") => <>(pc = "closed")

\* The goroutine that copies the input, which runCommand leaves behind when the
\* child ends early, ends with the session, whatever the client does.
NoGoroutineStays ==
    pc = "closed" ~> \A x \in Pipe : copier[x] \in {"idle", "done"}

\* runCommand gets to the end of the command and returns, once the client has
\* no more input or has gone ("Wait for the command to exit and log any errors
\* we get").
CommandEnds == client # "open" ~> pc = "closed"
=============================================================================
