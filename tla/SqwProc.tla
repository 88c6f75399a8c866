------------------------------- MODULE SqwProc -------------------------------
(***************************************************************************)
(* SqwProc (tools/monteconvo/sqw_proc_impl.h): an S(Q,w) model in a forked *)
(* child process.  The clients are SqwProc objects, each used by one       *)
(* thread at a time: the object that forked the child and its shallow      *)
(* copies.  They share a mutex, two message queues, a string in shared     *)
(* memory and the child.  A call holds the mutex while it fills the string *)
(* (SET_VARS), sends its request, waits for the answer without a timeout   *)
(* and reads the string (GET_VARS, DISP).                                  *)
(***************************************************************************)
EXTENDS SqwData, Sequences

CONSTANTS
  Clients,      \* the SqwProc objects
  Owner,        \* the one that creates the child process
  NoClient,     \* nobody holds the mutex
  QueueSize,    \* MSG_QUEUE_SIZE
  ChildMayDie   \* whether the child process may end unasked

ASSUME ProcAssumption ==
  /\ Owner \in Clients
  /\ NoClient \notin Clients
  /\ QueueSize \in Nat \ {0}
  /\ ChildMayDie \in BOOLEAN

VARIABLES
  pc,      \* where each client is
  req,     \* the call it makes
  ret,     \* what its last call returned
  bOk,     \* m_bOk
  mtx,     \* holder of the shared mutex
  names,   \* the named shared memory and queues: "none", "made", "removed"
  queues,  \* m_pmsgOut has been created
  out,     \* m_pmsgOut: messages to the child
  in,      \* m_pmsgIn: messages to the parent
  buf,     \* the string in shared memory
  child,   \* where the child process is
  alive,   \* the child process has not ended unasked
  cmsg,    \* the message the child handles
  cval,    \* what the model answered to it
  model    \* the parameters of the model in the child

callVars == <<req, ret>>
resVars == <<bOk, names, queues>>
childVars == <<child, alive, cmsg, cval, model>>
vars == <<pc, req, ret, bOk, mtx, names, queues, out, in, buf,
          child, alive, cmsg, cval, model>>

\* ProcMsg: requests carry a position, answers a value.
Msg(ty, q) == [ty |-> ty, q |-> q]
Rep(ty, v) == [ty |-> ty, val |-> v]
NoMsg == Msg("NOP", AnyQuery)

ReplyType(ty) == IF ty = "SET_VARS" THEN "READY" ELSE ty

Goto(c, l) == pc' = [pc EXCEPT ![c] = l]

\* The objects that hold a reference to the shared memory.
Holders == {c \in Clients : pc[c] \notin {"none", "ctor"}}

-----------------------------------------------------------------------------
Init ==
  /\ pc = [c \in Clients |-> IF c = Owner THEN "ctor" ELSE "none"]
  /\ req = [c \in Clients |-> NoReq]
  /\ ret = [c \in Clients |-> NoVal]
  /\ bOk = FALSE
  /\ mtx = NoClient
  /\ names = "none"
  /\ queues = FALSE
  /\ out = <<>> /\ in = <<>>
  /\ buf = ClearStr
  /\ child = "none"
  /\ alive = TRUE
  /\ cmsg = NoMsg
  /\ cval = NoVal
  /\ model = DefaultModel

-----------------------------------------------------------------------------
(* Construction.                                                           *)

\* Creating the memory or a queue throws: nothing, or only a part, is made.
CreateFails(c) ==
  /\ pc[c] = "ctor"
  /\ names' \in {"none", "made"}
  /\ Goto(c, "idle")
  /\ UNCHANGED <<callVars, bOk, queues, mtx, out, in, buf, childVars>>

Fork(c) ==
  /\ pc[c] = "ctor"
  /\ names' = "made"
  /\ queues' = TRUE
  /\ \/ child' = "init" /\ Goto(c, "hello")
     \/ child' = "none" /\ Goto(c, "idle")          \* fork() < 0
  /\ UNCHANGED <<callVars, bOk, mtx, out, in, buf, alive, cmsg, cval, model>>

\* Mutant: the READY message is looked at but left in the queue.
HelloPeeks(c) ==
  /\ pc[c] = "hello"
  /\ in # <<>>
  /\ bOk' = Head(in).val.b
  /\ Goto(c, "idle")
  /\ UNCHANGED <<callVars, names, queues, mtx, in, out, buf, childVars>>

\* The parent waits for the child's READY.
Hello(c) ==
  /\ pc[c] = "hello"
  /\ in # <<>>
  /\ bOk' = Head(in).val.b
  /\ in' = Tail(in)
  /\ Goto(c, "idle")
  /\ UNCHANGED <<callVars, names, queues, mtx, out, buf, childVars>>

\* shallow_copy: another object for the same child.
ShallowCopy(c, d) ==
  /\ pc[c] = "idle" /\ bOk
  /\ pc[d] = "none"
  /\ Goto(d, "idle")
  /\ UNCHANGED <<callVars, resVars, mtx, out, in, buf, childVars>>

-----------------------------------------------------------------------------
(* Calls: disp, operator(), IsOk, GetVars, SetVars.                        *)

\* IsOk does not ask the child if construction failed.
IsOkFailed(c) ==
  /\ pc[c] = "idle" /\ ~bOk
  /\ ret' = [ret EXCEPT ![c] = Flag(FALSE)]
  /\ UNCHANGED <<pc, req, resVars, mtx, out, in, buf, childVars>>

Call(c, r) ==
  /\ pc[c] = "idle" /\ bOk
  /\ Goto(c, "lock")
  /\ req' = [req EXCEPT ![c] = r]
  /\ ret' = [ret EXCEPT ![c] = NoVal]
  /\ UNCHANGED <<resVars, mtx, out, in, buf, childVars>>

\* Mutant: no lock_guard.
LockUnguarded(c) ==
  /\ pc[c] = "lock"
  /\ mtx' = c
  /\ Goto(c, IF req[c].ty = "SET_VARS" THEN "clear" ELSE "send")
  /\ UNCHANGED <<callVars, resVars, out, in, buf, childVars>>

Lock(c) ==
  /\ pc[c] = "lock"
  /\ mtx = NoClient
  /\ mtx' = c
  /\ Goto(c, IF req[c].ty = "SET_VARS" THEN "clear" ELSE "send")
  /\ UNCHANGED <<callVars, resVars, out, in, buf, childVars>>

\* pars_to_str clears the shared string and then appends the records.
ClearPars(c) ==
  /\ pc[c] = "clear"
  /\ buf' = ClearStr
  /\ Goto(c, "write")
  /\ UNCHANGED <<callVars, resVars, mtx, out, in, childVars>>

WritePars(c) ==
  /\ pc[c] = "write"
  /\ buf' = pars_to_str(req[c].l)
  /\ Goto(c, "send")
  /\ UNCHANGED <<callVars, resVars, mtx, out, in, childVars>>

Send(c) ==
  /\ pc[c] = "send"
  /\ Len(out) < QueueSize
  /\ out' = Append(out, Msg(req[c].ty, req[c].q))
  /\ Goto(c, "await")
  /\ UNCHANGED <<callVars, resVars, mtx, in, buf, childVars>>

\* The call returns v and its lock_guard releases the mutex.
Finish(c, v) ==
  /\ ret' = [ret EXCEPT ![c] = v]
  /\ req' = [req EXCEPT ![c] = NoReq]
  /\ mtx' = NoClient
  /\ Goto(c, "idle")

\* Mutant: the lock_guard's scope ends before the string is read.
ReceiveUnlocks(c) ==
  /\ pc[c] = "await"
  /\ in # <<>>
  /\ in' = Tail(in)
  /\ IF req[c].ty \in {"DISP", "GET_VARS"}
       THEN Goto(c, "read") /\ mtx' = NoClient /\ UNCHANGED callVars
       ELSE Finish(c, Head(in).val)
  /\ UNCHANGED <<resVars, out, buf, childVars>>

\* Mutant: an answer of another type than the request is not accepted; the
\* request is sent again.
ReceiveChecks(c) ==
  /\ pc[c] = "await"
  /\ in # <<>>
  /\ in' = Tail(in)
  /\ IF Head(in).ty # req[c].ty
       THEN Goto(c, "send") /\ UNCHANGED <<callVars, mtx>>
       ELSE IF req[c].ty \in {"DISP", "GET_VARS"}
         THEN Goto(c, "read") /\ UNCHANGED <<callVars, mtx>>
         ELSE Finish(c, Head(in).val)
  /\ UNCHANGED <<resVars, out, buf, childVars>>

\* The type of the answer is not looked at.
Receive(c) ==
  /\ pc[c] = "await"
  /\ in # <<>>
  /\ in' = Tail(in)
  /\ IF req[c].ty \in {"DISP", "GET_VARS"}
       THEN Goto(c, "read") /\ UNCHANGED <<callVars, mtx>>
       ELSE Finish(c, Head(in).val)
  /\ UNCHANGED <<resVars, out, buf, childVars>>

ReadString(c) ==
  /\ pc[c] = "read"
  /\ Finish(c, IF req[c].ty = "DISP" THEN str_to_disp(buf)
                                     ELSE VarsVal(str_to_pars(buf)))
  /\ UNCHANGED <<resVars, out, in, buf, childVars>>

-----------------------------------------------------------------------------
(* Destruction.                                                            *)

\* Mutant: every destructor tells the child to quit.
DestroyAlways(c) ==
  /\ pc[c] = "idle"
  /\ c = Owner => \A d \in Clients \ {Owner} : pc[d] = "none"
  /\ Goto(c, IF queues THEN "quit" ELSE "remove")
  /\ UNCHANGED <<callVars, resVars, mtx, out, in, buf, childVars>>

\* Mutant: the object counts its own reference as another one's.
DestroyNever(c) ==
  /\ pc[c] = "idle"
  /\ c = Owner => \A d \in Clients \ {Owner} : pc[d] = "none"
  /\ Goto(c, IF Holders # {} THEN "free" ELSE IF queues THEN "quit" ELSE "remove")
  /\ UNCHANGED <<callVars, resVars, mtx, out, in, buf, childVars>>

\* The object that owns the child outlives its copies: convofit copies the
\* model inside the fit and destroys the copies before the fit returns.
\* The destructor does nothing more if another object holds the memory.
Destroy(c) ==
  /\ pc[c] = "idle"
  /\ c = Owner => \A d \in Clients \ {Owner} : pc[d] = "none"
  /\ Goto(c, IF Holders \ {c} # {} THEN "free"
             ELSE IF queues THEN "quit" ELSE "remove")
  /\ UNCHANGED <<callVars, resVars, mtx, out, in, buf, childVars>>

SendQuit(c) ==
  /\ pc[c] = "quit"
  /\ Len(out) < QueueSize
  /\ out' = Append(out, Msg("QUIT", AnyQuery))
  /\ Goto(c, "remove")
  /\ UNCHANGED <<callVars, resVars, mtx, in, buf, childVars>>

Remove(c) ==
  /\ pc[c] = "remove"
  /\ names' = "removed"
  /\ Goto(c, "free")
  /\ UNCHANGED <<callVars, bOk, queues, mtx, out, in, buf, childVars>>

\* The members, with their references, are destroyed after the destructor.
Free(c) ==
  /\ pc[c] = "free"
  /\ Goto(c, "none")
  /\ UNCHANGED <<callVars, resVars, mtx, out, in, buf, childVars>>

-----------------------------------------------------------------------------
(* The child process: child_proc.                                          *)

\* The model has been constructed; whether it is usable is reported.
ChildReady ==
  /\ child = "init" /\ alive
  /\ \E b \in BOOLEAN : in' = Append(in, Rep("READY", Flag(b)))
  /\ child' = "recv"
  /\ UNCHANGED <<pc, callVars, resVars, mtx, out, buf, alive, cmsg, cval, model>>

ChildReceive ==
  /\ child = "recv" /\ alive
  /\ out # <<>>
  /\ cmsg' = Head(out)
  /\ out' = Tail(out)
  /\ child' = IF Head(out).ty = "QUIT" THEN "exited" ELSE "work"
  /\ UNCHANGED <<pc, callVars, resVars, mtx, in, buf, alive, cval, model>>

\* The model is asked; disp and GetVars answer before the string is cleared.
ChildAsk ==
  /\ child = "work" /\ alive
  /\ cmsg.ty \in {"SQW", "IS_OK", "DISP", "GET_VARS"}
  /\ cval' = CASE cmsg.ty = "SQW"      -> Weight(cmsg.q, model)
               [] cmsg.ty = "IS_OK"    -> Flag(TRUE)
               [] cmsg.ty = "DISP"     -> Branches(cmsg.q, model)
               [] cmsg.ty = "GET_VARS" -> VarsVal(model)
  /\ IF cmsg.ty \in {"DISP", "GET_VARS"}
       THEN child' = "write" /\ buf' = ClearStr
       ELSE child' = "reply" /\ UNCHANGED buf
  /\ UNCHANGED <<pc, callVars, resVars, mtx, out, in, alive, cmsg, model>>

\* Mutant: records with a wrong number of fields are used as they are.
ChildSetVarsUnchecked ==
  /\ child = "work" /\ alive
  /\ cmsg.ty = "SET_VARS"
  /\ model' = ModelSetVars(model, buf.l)
  /\ cval' = Flag(TRUE)
  /\ child' = "reply"
  /\ UNCHANGED <<pc, callVars, resVars, mtx, out, in, buf, alive, cmsg>>

ChildSetVars ==
  /\ child = "work" /\ alive
  /\ cmsg.ty = "SET_VARS"
  /\ model' = ModelSetVars(model, str_to_pars(buf))
  /\ cval' = Flag(TRUE)                     \* bRet is set to 1 in any case
  /\ child' = "reply"
  /\ UNCHANGED <<pc, callVars, resVars, mtx, out, in, buf, alive, cmsg>>

ChildWrite ==
  /\ child = "write" /\ alive
  /\ buf' = IF cmsg.ty = "DISP" THEN disp_to_str(cval.q, cval.m)
                                ELSE pars_to_str(cval.l)
  /\ child' = "reply"
  /\ UNCHANGED <<pc, callVars, resVars, mtx, out, in, alive, cmsg, cval, model>>

ChildReply ==
  /\ child = "reply" /\ alive
  /\ Len(in) < QueueSize
  /\ in' = Append(in, Rep(ReplyType(cmsg.ty),
                          IF cmsg.ty \in {"DISP", "GET_VARS"} THEN NoVal ELSE cval))
  /\ child' = "recv"
  /\ UNCHANGED <<pc, callVars, resVars, mtx, out, buf, alive, cmsg, cval, model>>

\* The child ends unasked: a crash of the interpreter, a script that exits,
\* or a constructor that throws (the child then leaves child_proc).
ChildDies ==
  /\ ChildMayDie
  /\ alive /\ child \notin {"none", "exited"}
  /\ alive' = FALSE
  /\ UNCHANGED <<pc, callVars, resVars, mtx, out, in, buf, child, cmsg, cval, model>>

-----------------------------------------------------------------------------
Construct(c) == CreateFails(c) \/ Fork(c) \/ Hello(c)
Proceed(c) == \/ Lock(c) \/ ClearPars(c) \/ WritePars(c) \/ Send(c)
              \/ Receive(c) \/ ReadString(c)
Destruct(c) == SendQuit(c) \/ Remove(c) \/ Free(c)
Child == \/ ChildReady \/ ChildReceive \/ ChildAsk \/ ChildSetVars
         \/ ChildWrite \/ ChildReply

\* Every object has been destroyed: the clients are done.
Terminated == (\A c \in Clients : pc[c] = "none") /\ UNCHANGED vars

Next ==
  \/ Construct(Owner)
  \/ \E c \in Clients :
       \/ \E d \in Clients : ShallowCopy(c, d)
       \/ IsOkFailed(c)
       \/ \E r \in Requests : Call(c, r)
       \/ Proceed(c)
       \/ Destroy(c)
       \/ Destruct(c)
  \/ Child
  \/ ChildDies
  \/ Terminated

Spec == Init /\ [][Next]_vars

\* Threads and the child process run on; nobody has to make another call.
Fairness ==
  /\ WF_vars(Construct(Owner))
  /\ \A c \in Clients : WF_vars(Proceed(c)) /\ WF_vars(Destruct(c))
  /\ WF_vars(Child)

FairSpec == Spec /\ Fairness

-----------------------------------------------------------------------------
(* Properties.                                                             *)

Places == {"none", "ctor", "hello", "idle", "lock", "clear", "write", "send",
           "await", "read", "quit", "remove", "free"}
ReqTypes == {"SQW", "DISP", "GET_VARS", "IS_OK", "SET_VARS"}
Messages == [ty : ReqTypes \cup {"QUIT", "NOP"}, q : Queries]
Replies == [ty : ReqTypes \cup {"READY"}, val : Values]

\* Type invariant.
TypeOK ==
  /\ pc \in [Clients -> Places]
  /\ req \in [Clients -> Requests \cup {NoReq}]
  /\ ret \in [Clients -> Values]
  /\ bOk \in BOOLEAN /\ queues \in BOOLEAN /\ alive \in BOOLEAN
  /\ mtx \in Clients \cup {NoClient}
  /\ names \in {"none", "made", "removed"}
  /\ out \in Seq(Messages) /\ in \in Seq(Replies)
  /\ buf \in Strings
  /\ child \in {"none", "init", "recv", "work", "write", "reply", "exited"}
  /\ cmsg \in Messages
  /\ cval \in Values
  /\ model \in Models

InCall(c) == pc[c] \in {"clear", "write", "send", "await", "read"}
Busy == child \in {"work", "write", "reply"}

\* A client that waits for the child has exactly one request underway, as a
\* message to the child, in the child's hands or as its answer; a client that
\* does not wait has none: the queues of MSG_QUEUE_SIZE messages never fill
\* and no answer is left over for the next caller.
OneRequestUnderway ==
  LET underway == Len(out) + Len(in) + (IF Busy THEN 1 ELSE 0)
  IN  /\ underway <= 1
      /\ \A c \in Clients : /\ pc[c] = "await" => underway = 1
                            /\ pc[c] \in {"clear", "write", "send", "read"} => underway = 0

\* Callers use the fields of an answer without looking at its type: the
\* answer in the queue always is the one to the request of the waiting caller.
AnswerMatchesRequest ==
  \A c \in Clients : pc[c] = "await" /\ in # <<>>
    => Head(in).ty = ReplyType(req[c].ty)

\* The shared string has no lock of its own: the child reads or writes it
\* only while its client waits, the client only while the child does not.
StringHasOneUser ==
  /\ child = "write" \/ (child = "work" /\ cmsg.ty = "SET_VARS")
       => \E c \in Clients : pc[c] = "await"
  /\ \A c, d \in Clients : InCall(c) /\ InCall(d) => c = d

\* A call made when the child has been told to quit would never return: at
\* that time no object other than the one being destroyed is left.
QuitIsLast ==
  child = "exited" \/ (\E i \in 1 .. Len(out) : out[i].ty = "QUIT")
    => \A c \in Clients : pc[c] \in {"none", "remove", "free"}

\* When the last object is gone the child has been told to quit and the
\* names of the shared memory and of the queues have been removed.
CleanedUp ==
  (\A c \in Clients : pc[c] = "none")
    => /\ names = "removed"
       /\ child \in {"none", "exited"} \/ out # <<>> \/ ~alive

\* No call keeps the mutex forever as long as the child lives.
MutexReleased == \A c \in Clients : (mtx = c) ~> (mtx # c)

\* The child does not outlive the objects that use it.
ChildQuits == (child # "none" /\ \A c \in Clients : pc[c] = "none") ~> (child = "exited")

-----------------------------------------------------------------------------
(* The inductive invariant behind these properties.                        *)

\* Where an object is between its construction and its destruction.
Active == {"idle", "lock", "clear", "write", "send", "await", "read"}
Calling == Active \ {"idle"}

\* The request of a waiting client: sent, being handled, or answered.
Sent(c) == /\ out = <<Msg(req[c].ty, req[c].q)>> /\ in = <<>>
           /\ child = "recv"
Handled(c) == /\ out = <<>> /\ in = <<>>
              /\ Busy /\ cmsg = Msg(req[c].ty, req[c].q)
              /\ child = "write" => req[c].ty \in {"DISP", "GET_VARS"}
Answered(c) == /\ out = <<>> /\ child = "recv"
               /\ in = <<Rep(ReplyType(req[c].ty),
                            IF req[c].ty \in {"DISP", "GET_VARS"} THEN NoVal ELSE cval)>>

\* Nothing is underway between the clients and the child.
Quiet == out = <<>> /\ in = <<>> /\ child = (IF queues /\ child # "none" THEN "recv" ELSE "none")

\* The mutex is held exactly during the exchange with the child.
MutexInv == \A c \in Clients : mtx = c <=> InCall(c)

\* The owner is the first object to exist and the last one to be destroyed.
OwnerInv ==
  \A c \in Clients \ {Owner} :
    /\ pc[c] \in Active \cup {"none", "free"}
    /\ pc[c] # "none" => pc[Owner] \in Active

\* Calls are made on a model that is set up, in the order the code has.
CallInv ==
  /\ bOk => queues /\ child \notin {"none", "init"}
  /\ pc[Owner] \in {"ctor", "hello"} => ~bOk
  /\ \A c \in Clients :
       /\ pc[c] \in Calling => bOk /\ req[c] \in Requests
       /\ pc[c] \in {"clear", "write"} => req[c].ty = "SET_VARS"
       /\ pc[c] = "read" => req[c].ty \in {"DISP", "GET_VARS"}

\* What is underway follows from where the clients are.
ChannelInv ==
  /\ pc[Owner] = "ctor" => Quiet /\ child = "none" /\ ~queues
  /\ pc[Owner] = "hello" =>
       /\ out = <<>> /\ queues
       /\ \/ in = <<>> /\ child = "init"
          \/ (\E b \in BOOLEAN : in = <<Rep("READY", Flag(b))>>) /\ child = "recv"
  /\ \A c \in Clients : pc[c] = "await" => Sent(c) \/ Handled(c) \/ Answered(c)
  /\ pc[Owner] \in Active \cup {"quit"} /\ (\A c \in Clients : pc[c] # "await") => Quiet
  /\ pc[Owner] \in {"remove", "free", "none"} =>
       /\ in = <<>>
       /\ \/ out = <<Msg("QUIT", AnyQuery)>> /\ child \in {"none", "recv"}
          \/ out = <<>> /\ child \in {"none", "exited"}
  /\ pc[Owner] \in {"free", "none"} => names = "removed"

\* The model has answered the client's request; the answer has been written.
Applied(c) == \/ pc[c] = "read"
              \/ pc[c] = "await" /\ (in # <<>> \/ child \in {"write", "reply"})
Written(c) == Applied(c) /\ child # "write"

\* The shared string holds what the client or the child has put there.
DataInv ==
  \A c \in Clients :
    /\ pc[c] = "send" \/ (pc[c] = "await" /\ ~Applied(c))
         => (req[c].ty = "SET_VARS" => buf = pars_to_str(req[c].l))
    /\ Applied(c) /\ req[c].ty = "DISP" =>
         /\ \E q \in Queries, m \in Models : cval = Branches(q, m)
         /\ Written(c) => buf = disp_to_str(cval.q, cval.m)
    /\ Applied(c) /\ req[c].ty = "GET_VARS" =>
         /\ \E m \in Models : cval = VarsVal(m)
         /\ Written(c) => buf = pars_to_str(cval.l)

\* The invariant that the proofs carry through every step.
IInv == TypeOK /\ MutexInv /\ OwnerInv /\ CallInv /\ ChannelInv /\ DataInv

-----------------------------------------------------------------------------
(* The calls are atomic: SqwProc implements SqwModel.                      *)

Phase(c) == CASE Applied(c) -> "applied"
              [] pc[c] \in {"lock", "clear", "write", "send", "await"} /\ ~Applied(c) -> "called"
              [] OTHER -> "idle"

\* What the model answered, as it will arrive.
Arriving(c) == CASE req[c].ty = "DISP"     -> str_to_disp(disp_to_str(cval.q, cval.m))
                 [] req[c].ty = "GET_VARS" -> VarsVal(Transmit(cval.l))
                 [] OTHER                  -> cval

Abstract == INSTANCE SqwModel WITH
  ok <- bOk,
  phase <- [c \in Clients |-> Phase(c)],
  pend <- [c \in Clients |-> IF Applied(c) THEN Arriving(c) ELSE NoVal]

\* Every behaviour of the objects and the child is one of atomic calls.
ImplementsSqwModel == Abstract!Spec
=============================================================================
