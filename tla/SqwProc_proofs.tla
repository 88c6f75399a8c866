--------------------------- MODULE SqwProc_proofs ----------------------------
(***************************************************************************)
(* Proofs about SqwProc: the inductive invariant, the safety properties it *)
(* implies, and that the calls are atomic.                                 *)
(***************************************************************************)
EXTENDS SqwProc, SequenceTheorems, TLAPS

-----------------------------------------------------------------------------
(* The data.                                                               *)

\* A part of a parameter list is a parameter list.
LEMMA RestrictionType ==
  ASSUME NEW l \in VarLists, NEW S
  PROVE  Restriction(l, S) \in VarLists
<1>1. PICK D \in SUBSET Pars : l \in [D -> Vals]
  BY DEF VarLists
<1>2. DOMAIN l = D
  BY <1>1
<1>3. Restriction(l, S) \in [D \cap S -> Vals]
  BY <1>1, <1>2 DEF Restriction
<1>4. D \cap S \in SUBSET Pars
  BY <1>1
<1> QED
  BY <1>3, <1>4 DEF VarLists

LEMMA EmptyList == [p \in {} |-> Default] \in VarLists
<1>1. [p \in {} |-> Default] \in [{} -> Vals]
  OBVIOUS
<1> QED
  BY <1>1 DEF VarLists

LEMMA ModelsAreLists == Models \subseteq VarLists
  BY DEF Models, VarLists

\* What is written into the shared string, and what is read from it.
LEMMA EncodingTypes ==
  /\ \A l \in VarLists : pars_to_str(l) \in Strings
  /\ \A s \in Strings : str_to_pars(s) \in VarLists
  /\ \A q \in Queries, m \in Models : disp_to_str(q, m) \in Strings
  /\ \A s \in Strings : str_to_disp(s) \in Values
  /\ ClearStr \in Strings
<1>1. ASSUME NEW l \in VarLists PROVE pars_to_str(l) \in Strings
  <2>1. \E S : pars_to_str(l) = ParStr(Restriction(l, S))
    BY DEF pars_to_str
  <2> QED
    BY <2>1, RestrictionType DEF Strings
<1>2. ASSUME NEW s \in Strings PROVE str_to_pars(s) \in VarLists
  <2>1. CASE s.tag = "pars"
    <3>1. s.l \in VarLists
      BY <2>1 DEF Strings, ClearStr, ParStr, DispStr
    <3> QED
      BY <2>1, <3>1, RestrictionType DEF str_to_pars
  <2>2. CASE s.tag # "pars"
    BY <2>2, EmptyList DEF str_to_pars
  <2> QED
    BY <2>1, <2>2
<1>3. \A q \in Queries, m \in Models : disp_to_str(q, m) \in Strings
  BY DEF disp_to_str, Strings
<1>4. \A s \in Strings : str_to_disp(s) \in Values
  BY DEF str_to_disp, Strings, Values, ClearStr, ParStr, DispStr
<1> QED
  BY <1>1, <1>2, <1>3, <1>4 DEF Strings

\* Setting parameters keeps every parameter of the model.
LEMMA SetVarsType ==
  ASSUME NEW m \in Models, NEW l \in VarLists
  PROVE  ModelSetVars(m, l) \in Models
<1>1. \A p \in DOMAIN l : l[p] \in Vals
  BY DEF VarLists
<1> QED
  BY <1>1 DEF ModelSetVars, Models

LEMMA RequestTypes ==
  /\ AnyQuery \in Queries
  /\ \A r \in Requests : /\ r.ty \in ReqTypes /\ r.q \in Queries
                         /\ r.ty = "SET_VARS" => r.l \in VarLists
<1>1. AnyQuery \in Queries
  BY DataAssumption DEF AnyQuery
<1> QED
  BY <1>1 DEF Requests, Req, ReqTypes

\* Queues hold at most one message.
LEMMA OneElement ==
  ASSUME NEW x
  PROVE  /\ Append(<<>>, x) = <<x>> /\ Head(<<x>>) = x /\ Tail(<<x>>) = <<>>
         /\ <<x>> # <<>> /\ Len(<<x>>) = 1
  OBVIOUS

LEMMA ValueTypes ==
  /\ NoVal \in Values
  /\ \A b \in BOOLEAN : Flag(b) \in Values
  /\ \A q \in Queries, m \in Models : Weight(q, m) \in Values /\ Branches(q, m) \in Values
  /\ \A l \in VarLists : VarsVal(l) \in Values
  BY DEF Values

LEMMA MessageTypes ==
  /\ \A r \in Requests : Msg(r.ty, r.q) \in Messages
  /\ Msg("QUIT", AnyQuery) \in Messages
  /\ \A ty \in ReqTypes : ReplyType(ty) \in ReqTypes \cup {"READY"}
  /\ \A ty \in ReqTypes \cup {"READY"}, v \in Values : Rep(ty, v) \in Replies
  BY RequestTypes DEF Msg, Messages, ReplyType, Rep, Replies, ReqTypes

-----------------------------------------------------------------------------
(* What the invariant says of a client in a call and of a busy child.      *)

\* One client at a time exchanges messages with the child, and while one does
\* the owner exists.
LEMMA Alone ==
  ASSUME IInv, NEW c \in Clients, InCall(c)
  PROVE  /\ \A d \in Clients : InCall(d) => d = c
         /\ pc[Owner] \in Active
<1>1. \A d \in Clients : InCall(d) => d = c
  BY DEF IInv, MutexInv
<1>2. pc[Owner] \in Active
  <2>1. CASE c = Owner
    BY <2>1 DEF InCall, Active
  <2>2. CASE c # Owner
    BY <2>2 DEF IInv, OwnerInv, InCall
  <2> QED
    BY <2>1, <2>2
<1> QED
  BY <1>1, <1>2

\* A client that is in a call but does not wait finds the queues empty.
LEMMA Silence ==
  ASSUME IInv, NEW c \in Clients, InCall(c), pc[c] # "await"
  PROVE  Quiet /\ child = "recv"
<1>1. \A d \in Clients : pc[d] # "await"
  BY Alone DEF InCall
<1>2. Quiet
  BY <1>1, Alone DEF IInv, ChannelInv
<1>3. bOk
  BY DEF IInv, CallInv, InCall, Calling, Active
<1> QED
  BY <1>2, <1>3 DEF IInv, CallInv, Quiet

\* A busy child handles the request of a waiting client.
LEMMA BusyForClient ==
  ASSUME IInv, Busy
  PROVE  \E c \in Clients : pc[c] = "await" /\ Handled(c)
<1>1. \E c \in Clients : pc[c] = "await"
  <2>1. ~Quiet
    BY DEF Busy, Quiet
  <2> QED
    BY <2>1, ProcAssumption DEF IInv, TypeOK, Places, ChannelInv, Busy, Active
<1> QED
  BY <1>1 DEF IInv, ChannelInv, Sent, Handled, Answered, Busy

\* Adding to and taking from a queue keeps the type of its messages.
LEMMA QueueTypes ==
  ASSUME NEW S, NEW s \in Seq(S)
  PROVE  /\ \A x \in S : Append(s, x) \in Seq(S)
         /\ s # <<>> => Head(s) \in S /\ Tail(s) \in Seq(S)
  OBVIOUS

\* What the child has asked the model for can be written into the string.
LEMMA WrittenTypes ==
  ASSUME IInv, NEW c \in Clients, Applied(c), req[c].ty \in {"DISP", "GET_VARS"}
  PROVE  /\ req[c].ty = "DISP" => disp_to_str(cval.q, cval.m) \in Strings
         /\ req[c].ty = "GET_VARS" => pars_to_str(cval.l) \in Strings
<1>1. ASSUME req[c].ty = "DISP" PROVE disp_to_str(cval.q, cval.m) \in Strings
  <2>1. PICK q \in Queries, m \in Models : cval = Branches(q, m)
    BY <1>1 DEF IInv, DataInv
  <2>2. cval.q = q /\ cval.m = m
    BY <2>1 DEF Branches
  <2> QED
    BY <2>2, EncodingTypes
<1>2. ASSUME req[c].ty = "GET_VARS" PROVE pars_to_str(cval.l) \in Strings
  <2>1. PICK m \in Models : cval = VarsVal(m)
    BY <1>2 DEF IInv, DataInv
  <2>2. cval.l = m
    BY <2>1 DEF VarsVal
  <2> QED
    BY <2>2, EncodingTypes, ModelsAreLists
<1> QED
  BY <1>1, <1>2

-----------------------------------------------------------------------------
(* Every action preserves the invariant: the clients ...                   *)

LEMMA CreateFailsStep ==
  ASSUME IInv, CreateFails(Owner)
  PROVE  IInv'
<1> USE DEF CreateFails, callVars, resVars, childVars, Goto
<1>1. TypeOK'
  BY RequestTypes, EncodingTypes, ValueTypes, MessageTypes, SetVarsType, ModelsAreLists DEF IInv, TypeOK, Places, CallInv, Calling, Active
<1>2. MutexInv'
  BY ProcAssumption DEF IInv, TypeOK, MutexInv, InCall
<1>3. OwnerInv'
  BY ProcAssumption DEF IInv, TypeOK, OwnerInv, Active, Holders
<1>4. CallInv'
  BY ProcAssumption DEF IInv, TypeOK, OwnerInv, CallInv, Active, Calling
<1>5. ChannelInv'
  BY OneElement, ProcAssumption DEF IInv, TypeOK, MutexInv, InCall, OwnerInv, CallInv, ChannelInv, Active, Calling, Sent, Handled, Answered, Quiet, Busy
<1>6. DataInv'
  BY OneElement, ProcAssumption DEF IInv, TypeOK, MutexInv, InCall, DataInv, Applied, Written, Quiet
<1> QED
  BY <1>1, <1>2, <1>3, <1>4, <1>5, <1>6 DEF IInv

LEMMA ForkStep ==
  ASSUME IInv, Fork(Owner)
  PROVE  IInv'
<1> USE DEF Fork, callVars, resVars, childVars, Goto
<1>c. \A c \in Clients : c # Owner => pc[c] = "none"
  BY DEF IInv, OwnerInv, Active
<1>1. TypeOK'
  BY RequestTypes, EncodingTypes, ValueTypes, MessageTypes, SetVarsType, ModelsAreLists DEF IInv, TypeOK, Places, CallInv, Calling, Active
<1>2. MutexInv'
  BY ProcAssumption DEF IInv, TypeOK, MutexInv, InCall
<1>3. OwnerInv'
  BY ProcAssumption DEF IInv, TypeOK, OwnerInv, Active, Holders
<1>4. CallInv'
  BY ProcAssumption DEF IInv, TypeOK, OwnerInv, CallInv, Active, Calling
<1>5. ChannelInv'
  BY OneElement, ProcAssumption DEF IInv, TypeOK, MutexInv, InCall, OwnerInv, CallInv, ChannelInv, Active, Calling, Sent, Handled, Answered, Quiet, Busy
<1>6. DataInv'
  BY <1>c, ProcAssumption DEF IInv, TypeOK, DataInv, Applied, Written
<1> QED
  BY <1>1, <1>2, <1>3, <1>4, <1>5, <1>6 DEF IInv

LEMMA HelloStep ==
  ASSUME IInv, Hello(Owner)
  PROVE  IInv'
<1> USE DEF Hello, callVars, resVars, childVars, Goto
<1>a. PICK b \in BOOLEAN : in = <<Rep("READY", Flag(b))>> /\ child = "recv" /\ out = <<>>
  BY DEF IInv, ChannelInv
<1>b. in' = <<>> /\ bOk' = b
  BY <1>a, OneElement DEF Rep, Flag
<1>e. bOk' \in BOOLEAN
  BY <1>b
<1>f. in' \in Seq(Replies)
  BY QueueTypes DEF IInv, TypeOK
<1>c. \A c \in Clients : c # Owner => pc[c] = "none"
  BY DEF IInv, OwnerInv, Active
<1>d. queues
  BY DEF IInv, ChannelInv
<1>1. TypeOK'
  BY <1>e, <1>f DEF IInv, TypeOK, Places
<1>2. MutexInv'
  BY ProcAssumption DEF IInv, TypeOK, MutexInv, InCall
<1>3. OwnerInv'
  BY ProcAssumption DEF IInv, TypeOK, OwnerInv, Active, Holders
<1>4. CallInv'
  <2>1. pc'[Owner] = "idle" /\ \A c \in Clients : pc'[c] \in {"idle", "none"}
    BY <1>c, ProcAssumption DEF IInv, TypeOK
  <2> QED
    BY <1>a, <1>d, <2>1 DEF CallInv, Calling, Active
<1>5. ChannelInv'
  BY <1>a, <1>b, <1>c, ProcAssumption DEF IInv, TypeOK, ChannelInv, Active, Quiet
<1>6. DataInv'
  BY <1>a, <1>b, <1>c DEF IInv, TypeOK, DataInv, Applied, Written
<1> QED
  BY <1>1, <1>2, <1>3, <1>4, <1>5, <1>6 DEF IInv

LEMMA ShallowCopyStep ==
  ASSUME IInv, NEW c \in Clients, NEW d \in Clients, ShallowCopy(c, d)
  PROVE  IInv'
<1> USE DEF ShallowCopy, callVars, resVars, childVars, Goto
<1>1. TypeOK'
  BY RequestTypes, EncodingTypes, ValueTypes, MessageTypes, SetVarsType, ModelsAreLists DEF IInv, TypeOK, Places, CallInv, Calling, Active
<1>2. MutexInv'
  BY ProcAssumption DEF IInv, TypeOK, MutexInv, InCall
<1>3. OwnerInv'
  BY ProcAssumption DEF IInv, TypeOK, OwnerInv, Active, Holders
<1>4. CallInv'
  BY ProcAssumption DEF IInv, TypeOK, OwnerInv, CallInv, Active, Calling
<1>5. ChannelInv'
  BY OneElement, ProcAssumption DEF IInv, TypeOK, MutexInv, InCall, OwnerInv, CallInv, ChannelInv, Active, Calling, Sent, Handled, Answered, Quiet, Busy
<1>6. DataInv'
  BY OneElement, ProcAssumption DEF IInv, TypeOK, MutexInv, InCall, DataInv, Applied, Written, Quiet
<1> QED
  BY <1>1, <1>2, <1>3, <1>4, <1>5, <1>6 DEF IInv

LEMMA IsOkFailedStep ==
  ASSUME IInv, NEW c \in Clients, IsOkFailed(c)
  PROVE  IInv'
<1> USE DEF IsOkFailed, callVars, resVars, childVars, Goto
<1>1. TypeOK'
  BY RequestTypes, EncodingTypes, ValueTypes, MessageTypes, SetVarsType, ModelsAreLists DEF IInv, TypeOK, Places, CallInv, Calling, Active
<1>2. MutexInv'
  BY ProcAssumption DEF IInv, TypeOK, MutexInv, InCall
<1>3. OwnerInv'
  BY ProcAssumption DEF IInv, TypeOK, OwnerInv, Active, Holders
<1>4. CallInv'
  BY ProcAssumption DEF IInv, TypeOK, OwnerInv, CallInv, Active, Calling
<1>5. ChannelInv'
  BY OneElement, ProcAssumption DEF IInv, TypeOK, MutexInv, InCall, OwnerInv, CallInv, ChannelInv, Active, Calling, Sent, Handled, Answered, Quiet, Busy
<1>6. DataInv'
  BY OneElement, ProcAssumption DEF IInv, TypeOK, MutexInv, InCall, DataInv, Applied, Written, Quiet
<1> QED
  BY <1>1, <1>2, <1>3, <1>4, <1>5, <1>6 DEF IInv

LEMMA CallStep ==
  ASSUME IInv, NEW c \in Clients, NEW r \in Requests, Call(c, r)
  PROVE  IInv'
<1> USE DEF Call, callVars, resVars, childVars, Goto
<1>1. TypeOK'
  BY RequestTypes, EncodingTypes, ValueTypes, MessageTypes, SetVarsType, ModelsAreLists DEF IInv, TypeOK, Places, CallInv, Calling, Active
<1>2. MutexInv'
  BY ProcAssumption DEF IInv, TypeOK, MutexInv, InCall
<1>3. OwnerInv'
  BY ProcAssumption DEF IInv, TypeOK, OwnerInv, Active, Holders
<1>4. CallInv'
  BY ProcAssumption DEF IInv, TypeOK, OwnerInv, CallInv, Active, Calling
<1>5. ChannelInv'
  BY OneElement, ProcAssumption DEF IInv, TypeOK, MutexInv, InCall, OwnerInv, CallInv, ChannelInv, Active, Calling, Sent, Handled, Answered, Quiet, Busy
<1>6. DataInv'
  BY OneElement, ProcAssumption DEF IInv, TypeOK, MutexInv, InCall, DataInv, Applied, Written, Quiet
<1> QED
  BY <1>1, <1>2, <1>3, <1>4, <1>5, <1>6 DEF IInv

LEMMA LockStep ==
  ASSUME IInv, NEW c \in Clients, Lock(c)
  PROVE  IInv'
<1> USE DEF Lock, callVars, resVars, childVars, Goto
<1>1. TypeOK'
  BY RequestTypes, EncodingTypes, ValueTypes, MessageTypes, SetVarsType, ModelsAreLists DEF IInv, TypeOK, Places, CallInv, Calling, Active
<1>2. MutexInv'
  BY ProcAssumption DEF IInv, TypeOK, MutexInv, InCall
<1>3. OwnerInv'
  BY ProcAssumption DEF IInv, TypeOK, OwnerInv, Active, Holders
<1>4. CallInv'
  BY ProcAssumption DEF IInv, TypeOK, OwnerInv, CallInv, Active, Calling
<1>5. ChannelInv'
  BY OneElement, ProcAssumption DEF IInv, TypeOK, MutexInv, InCall, OwnerInv, CallInv, ChannelInv, Active, Calling, Sent, Handled, Answered, Quiet, Busy
<1>6. DataInv'
  BY OneElement, ProcAssumption DEF IInv, TypeOK, MutexInv, InCall, DataInv, Applied, Written, Quiet
<1> QED
  BY <1>1, <1>2, <1>3, <1>4, <1>5, <1>6 DEF IInv

LEMMA ClearParsStep ==
  ASSUME IInv, NEW c \in Clients, ClearPars(c)
  PROVE  IInv'
<1> USE DEF ClearPars, callVars, resVars, childVars, Goto
<1>a. Quiet /\ child = "recv"
  BY Silence DEF InCall
<1>1. TypeOK'
  BY RequestTypes, EncodingTypes, ValueTypes, MessageTypes, SetVarsType, ModelsAreLists DEF IInv, TypeOK, Places, CallInv, Calling, Active
<1>2. MutexInv'
  BY ProcAssumption DEF IInv, TypeOK, MutexInv, InCall
<1>3. OwnerInv'
  BY ProcAssumption DEF IInv, TypeOK, OwnerInv, Active, Holders
<1>4. CallInv'
  BY ProcAssumption DEF IInv, TypeOK, OwnerInv, CallInv, Active, Calling
<1>5. ChannelInv'
  BY OneElement, ProcAssumption DEF IInv, TypeOK, MutexInv, InCall, OwnerInv, CallInv, ChannelInv, Active, Calling, Sent, Handled, Answered, Quiet, Busy
<1>6. DataInv'
  BY OneElement, ProcAssumption DEF IInv, TypeOK, MutexInv, InCall, DataInv, Applied, Written, Quiet
<1> QED
  BY <1>1, <1>2, <1>3, <1>4, <1>5, <1>6 DEF IInv

LEMMA WriteParsStep ==
  ASSUME IInv, NEW c \in Clients, WritePars(c)
  PROVE  IInv'
<1> USE DEF WritePars, callVars, resVars, childVars, Goto
<1>a. Quiet /\ child = "recv"
  BY Silence DEF InCall
<1>1. TypeOK'
  BY RequestTypes, EncodingTypes, ValueTypes, MessageTypes, SetVarsType, ModelsAreLists DEF IInv, TypeOK, Places, CallInv, Calling, Active
<1>2. MutexInv'
  BY ProcAssumption DEF IInv, TypeOK, MutexInv, InCall
<1>3. OwnerInv'
  BY ProcAssumption DEF IInv, TypeOK, OwnerInv, Active, Holders
<1>4. CallInv'
  BY ProcAssumption DEF IInv, TypeOK, OwnerInv, CallInv, Active, Calling
<1>5. ChannelInv'
  BY OneElement, ProcAssumption DEF IInv, TypeOK, MutexInv, InCall, OwnerInv, CallInv, ChannelInv, Active, Calling, Sent, Handled, Answered, Quiet, Busy
<1>6. DataInv'
  BY OneElement, ProcAssumption DEF IInv, TypeOK, MutexInv, InCall, DataInv, Applied, Written, Quiet
<1> QED
  BY <1>1, <1>2, <1>3, <1>4, <1>5, <1>6 DEF IInv

LEMMA SendStep ==
  ASSUME IInv, NEW c \in Clients, Send(c)
  PROVE  IInv'
<1> USE DEF Send, callVars, resVars, childVars, Goto
<1>a. Quiet /\ child = "recv"
  BY Silence DEF InCall
<1>b. Msg(req[c].ty, req[c].q) \in Messages /\ out = <<>> /\ in = <<>>
  BY <1>a, MessageTypes DEF IInv, CallInv, Calling, Active, Quiet
<1>c. out' = <<Msg(req[c].ty, req[c].q)>>
  BY <1>b, OneElement
<1>1. TypeOK'
  BY <1>b, QueueTypes DEF IInv, TypeOK, Places
<1>2. MutexInv'
  BY ProcAssumption DEF IInv, TypeOK, MutexInv, InCall
<1>3. OwnerInv'
  BY ProcAssumption DEF IInv, TypeOK, OwnerInv, Active, Holders
<1>4. CallInv'
  BY ProcAssumption DEF IInv, TypeOK, OwnerInv, CallInv, Active, Calling
<1>5. ChannelInv'
  BY <1>a, <1>b, <1>c, Alone, ProcAssumption DEF IInv, TypeOK, MutexInv, InCall, OwnerInv, CallInv, ChannelInv, Active, Sent
<1>6. DataInv'
  BY <1>a, <1>b, Alone DEF IInv, TypeOK, InCall, DataInv, Applied, Written
<1> QED
  BY <1>1, <1>2, <1>3, <1>4, <1>5, <1>6 DEF IInv

LEMMA ReceiveStep ==
  ASSUME IInv, NEW c \in Clients, Receive(c)
  PROVE  IInv'
<1> USE DEF Receive, callVars, resVars, childVars, Goto, Finish
<1>a. in = <<Head(in)>> /\ in' = <<>> /\ Answered(c) /\ out = <<>> /\ child = "recv"
  BY OneElement DEF IInv, ChannelInv, Sent, Handled, Answered
<1>b. Head(in).val \in Values
  <2>1. Head(in) \in Replies
    BY QueueTypes DEF IInv, TypeOK
  <2> QED
    BY <2>1 DEF Replies
<1>c. \A d \in Clients : InCall(d) => d = c
  BY Alone DEF InCall
<1>1. TypeOK'
  BY <1>a, <1>b DEF IInv, TypeOK, Places
<1>2. MutexInv'
  BY ProcAssumption DEF IInv, TypeOK, MutexInv, InCall
<1>3. OwnerInv'
  BY ProcAssumption DEF IInv, TypeOK, OwnerInv, Active, Holders
<1>4. CallInv'
  BY ProcAssumption DEF IInv, TypeOK, OwnerInv, CallInv, Active, Calling
<1>5. ChannelInv'
  BY <1>a, <1>c, ProcAssumption DEF IInv, TypeOK, InCall, OwnerInv, CallInv, ChannelInv, Active, Calling, Quiet
<1>6. DataInv'
  BY <1>a, <1>c DEF IInv, TypeOK, InCall, DataInv, Applied, Written
<1> QED
  BY <1>1, <1>2, <1>3, <1>4, <1>5, <1>6 DEF IInv

LEMMA ReadStringStep ==
  ASSUME IInv, NEW c \in Clients, ReadString(c)
  PROVE  IInv'
<1> USE DEF ReadString, callVars, resVars, childVars, Goto, Finish
<1>a. Quiet /\ child = "recv"
  BY Silence DEF InCall
<1>1. TypeOK'
  BY RequestTypes, EncodingTypes, ValueTypes, MessageTypes, SetVarsType, ModelsAreLists DEF IInv, TypeOK, Places, CallInv, Calling, Active
<1>2. MutexInv'
  BY ProcAssumption DEF IInv, TypeOK, MutexInv, InCall
<1>3. OwnerInv'
  BY ProcAssumption DEF IInv, TypeOK, OwnerInv, Active, Holders
<1>4. CallInv'
  BY ProcAssumption DEF IInv, TypeOK, OwnerInv, CallInv, Active, Calling
<1>5. ChannelInv'
  BY OneElement, ProcAssumption DEF IInv, TypeOK, MutexInv, InCall, OwnerInv, CallInv, ChannelInv, Active, Calling, Sent, Handled, Answered, Quiet, Busy
<1>6. DataInv'
  BY OneElement, ProcAssumption DEF IInv, TypeOK, MutexInv, InCall, DataInv, Applied, Written, Quiet
<1> QED
  BY <1>1, <1>2, <1>3, <1>4, <1>5, <1>6 DEF IInv

LEMMA DestroyStep ==
  ASSUME IInv, NEW c \in Clients, Destroy(c)
  PROVE  IInv'
<1> USE DEF Destroy, callVars, resVars, childVars, Goto
<1>a. c # Owner => Owner \in Holders \ {c}
  BY ProcAssumption DEF IInv, OwnerInv, Active, Holders
<1>b. c = Owner => Holders \ {c} = {}
  BY DEF Holders
<1>c. c = Owner => Quiet
  BY DEF IInv, OwnerInv, ChannelInv, Active
<1>1. TypeOK'
  BY RequestTypes, EncodingTypes, ValueTypes, MessageTypes, SetVarsType, ModelsAreLists DEF IInv, TypeOK, Places, CallInv, Calling, Active
<1>2. MutexInv'
  BY ProcAssumption DEF IInv, TypeOK, MutexInv, InCall
<1>3. OwnerInv'
  BY ProcAssumption DEF IInv, TypeOK, OwnerInv, Active, Holders
<1>4. CallInv'
  BY ProcAssumption DEF IInv, TypeOK, OwnerInv, CallInv, Active, Calling
<1>5. ChannelInv'
  <2>1. CASE c = Owner
    BY <1>b, <1>c, <2>1 DEF IInv, TypeOK, OwnerInv, ChannelInv, Active, Quiet
  <2>2. CASE c # Owner
    <3>1. pc' = [pc EXCEPT ![c] = "free"]
      BY <1>a, <2>2
    <3>2. /\ pc'[Owner] = pc[Owner]
          /\ \A d \in Clients : pc'[d] = "await" <=> pc[d] = "await"
      BY <2>2, <3>1, ProcAssumption DEF IInv, TypeOK
    <3> QED
      BY <3>2 DEF IInv, ChannelInv, Sent, Handled, Answered, Quiet, Busy
  <2> QED
    BY <2>1, <2>2
<1>6. DataInv'
  BY OneElement, ProcAssumption DEF IInv, TypeOK, MutexInv, InCall, DataInv, Applied, Written, Quiet
<1> QED
  BY <1>1, <1>2, <1>3, <1>4, <1>5, <1>6 DEF IInv

LEMMA SendQuitStep ==
  ASSUME IInv, NEW c \in Clients, SendQuit(c)
  PROVE  IInv'
<1> USE DEF SendQuit, callVars, resVars, childVars, Goto
<1>a. c = Owner /\ \A d \in Clients \ {Owner} : pc[d] = "none"
  BY DEF IInv, OwnerInv, Active
<1>b. Quiet
  BY <1>a, ProcAssumption DEF IInv, ChannelInv
<1>c. out' = <<Msg("QUIT", AnyQuery)>>
  BY <1>b, OneElement DEF Quiet
<1>1. TypeOK'
  BY MessageTypes, QueueTypes DEF IInv, TypeOK, Places
<1>2. MutexInv'
  BY ProcAssumption DEF IInv, TypeOK, MutexInv, InCall
<1>3. OwnerInv'
  BY ProcAssumption DEF IInv, TypeOK, OwnerInv, Active, Holders
<1>4. CallInv'
  BY ProcAssumption DEF IInv, TypeOK, OwnerInv, CallInv, Active, Calling
<1>5. ChannelInv'
  BY <1>a, <1>b, <1>c DEF IInv, TypeOK, ChannelInv, Active, Quiet
<1>6. DataInv'
  BY OneElement, ProcAssumption DEF IInv, TypeOK, MutexInv, InCall, DataInv, Applied, Written, Quiet
<1> QED
  BY <1>1, <1>2, <1>3, <1>4, <1>5, <1>6 DEF IInv

LEMMA RemoveStep ==
  ASSUME IInv, NEW c \in Clients, Remove(c)
  PROVE  IInv'
<1> USE DEF Remove, callVars, resVars, childVars, Goto
<1>1. TypeOK'
  BY RequestTypes, EncodingTypes, ValueTypes, MessageTypes, SetVarsType, ModelsAreLists DEF IInv, TypeOK, Places, CallInv, Calling, Active
<1>2. MutexInv'
  BY ProcAssumption DEF IInv, TypeOK, MutexInv, InCall
<1>3. OwnerInv'
  BY ProcAssumption DEF IInv, TypeOK, OwnerInv, Active, Holders
<1>4. CallInv'
  BY ProcAssumption DEF IInv, TypeOK, OwnerInv, CallInv, Active, Calling
<1>5. ChannelInv'
  BY OneElement, ProcAssumption DEF IInv, TypeOK, MutexInv, InCall, OwnerInv, CallInv, ChannelInv, Active, Calling, Sent, Handled, Answered, Quiet, Busy
<1>6. DataInv'
  BY OneElement, ProcAssumption DEF IInv, TypeOK, MutexInv, InCall, DataInv, Applied, Written, Quiet
<1> QED
  BY <1>1, <1>2, <1>3, <1>4, <1>5, <1>6 DEF IInv

LEMMA FreeStep ==
  ASSUME IInv, NEW c \in Clients, Free(c)
  PROVE  IInv'
<1> USE DEF Free, callVars, resVars, childVars, Goto
<1>1. TypeOK'
  BY RequestTypes, EncodingTypes, ValueTypes, MessageTypes, SetVarsType, ModelsAreLists DEF IInv, TypeOK, Places, CallInv, Calling, Active
<1>2. MutexInv'
  BY ProcAssumption DEF IInv, TypeOK, MutexInv, InCall
<1>3. OwnerInv'
  BY ProcAssumption DEF IInv, TypeOK, OwnerInv, Active, Holders
<1>4. CallInv'
  BY ProcAssumption DEF IInv, TypeOK, OwnerInv, CallInv, Active, Calling
<1>5. ChannelInv'
  BY OneElement, ProcAssumption DEF IInv, TypeOK, MutexInv, InCall, OwnerInv, CallInv, ChannelInv, Active, Calling, Sent, Handled, Answered, Quiet, Busy
<1>6. DataInv'
  BY OneElement, ProcAssumption DEF IInv, TypeOK, MutexInv, InCall, DataInv, Applied, Written, Quiet
<1> QED
  BY <1>1, <1>2, <1>3, <1>4, <1>5, <1>6 DEF IInv

-----------------------------------------------------------------------------
(* ... and the child process.                                              *)

LEMMA ChildReadyStep ==
  ASSUME IInv, ChildReady
  PROVE  IInv'
<1> USE DEF ChildReady, callVars, resVars, childVars, Goto
<1>a. pc[Owner] = "hello" /\ in = <<>> /\ out = <<>>
  BY ProcAssumption DEF IInv, TypeOK, Places, ChannelInv, Quiet, Sent, Handled, Answered, Busy, Active
<1>b. PICK b \in BOOLEAN : /\ in' = Append(in, Rep("READY", Flag(b)))
                          /\ in' = <<Rep("READY", Flag(b))>>
  BY <1>a, OneElement
<1>c. \A c \in Clients : c # Owner => pc[c] = "none"
  BY <1>a DEF IInv, OwnerInv, Active
<1>1. TypeOK'
  <2>1. Rep("READY", Flag(b)) \in Replies
    BY ValueTypes, MessageTypes
  <2>2. in' \in Seq(Replies)
    BY <1>b, <2>1, QueueTypes DEF IInv, TypeOK
  <2> QED
    BY <2>2 DEF IInv, TypeOK
<1>2. MutexInv'
  BY ProcAssumption DEF IInv, TypeOK, MutexInv, InCall
<1>3. OwnerInv'
  BY ProcAssumption DEF IInv, TypeOK, OwnerInv, Active, Holders
<1>4. CallInv'
  BY ProcAssumption DEF IInv, TypeOK, OwnerInv, CallInv, Active, Calling
<1>5. ChannelInv'
  BY <1>a, <1>b, <1>c, ProcAssumption DEF IInv, ChannelInv, Active
<1>6. DataInv'
  BY <1>a, <1>c DEF DataInv, Applied, Written, IInv, Active
<1> QED
  BY <1>1, <1>2, <1>3, <1>4, <1>5, <1>6 DEF IInv

LEMMA ChildReceiveStep ==
  ASSUME IInv, ChildReceive
  PROVE  IInv'
<1> USE DEF ChildReceive, callVars, resVars, childVars, Goto
<1>a. out = <<Head(out)>> /\ out' = <<>> /\ in = <<>>
  BY OneElement, ProcAssumption DEF IInv, TypeOK, Places, ChannelInv, Quiet, Sent, Handled, Answered, Active
<1>b. Head(out) \in Messages
  BY QueueTypes DEF IInv, TypeOK
<1>1. TypeOK'
  BY <1>a, <1>b DEF IInv, TypeOK
<1>2. MutexInv'
  BY ProcAssumption DEF IInv, TypeOK, MutexInv, InCall
<1>3. OwnerInv'
  BY ProcAssumption DEF IInv, TypeOK, OwnerInv, Active, Holders
<1>4. CallInv'
  BY ProcAssumption DEF IInv, TypeOK, OwnerInv, CallInv, Active, Calling
<1>5. ChannelInv'
  <2>1. CASE \E c \in Clients : pc[c] = "await"
    <3>1. PICK c \in Clients : pc[c] = "await" /\ Sent(c)
      BY <2>1, <1>a DEF IInv, ChannelInv, Sent, Handled, Answered
    <3>2. (\A d \in Clients : InCall(d) => d = c) /\ pc[Owner] \in Active
      BY <3>1, Alone DEF InCall
    <3>3. req[c].ty # "QUIT"
      BY <3>1, RequestTypes DEF IInv, CallInv, Calling, Active, ReqTypes
    <3>4. Handled(c)'
      BY <3>1, <3>3, <1>a, OneElement DEF Sent, Handled, Busy, Msg
    <3> QED
      BY <3>1, <3>2, <3>4 DEF IInv, ChannelInv, Active, InCall
  <2>2. CASE ~ \E c \in Clients : pc[c] = "await"
    <3>1. pc[Owner] \in {"remove", "free", "none"} /\ out = <<Msg("QUIT", AnyQuery)>>
      BY <2>2, <1>a, ProcAssumption DEF IInv, TypeOK, Places, ChannelInv, Quiet, Active
    <3>2. child' = "exited"
      BY <3>1, OneElement DEF Msg
    <3> QED
      BY <3>1, <3>2, <2>2, <1>a DEF IInv, ChannelInv, Active
  <2> QED
    BY <2>1, <2>2
<1>6. DataInv'
  BY <1>a DEF IInv, DataInv, Applied, Written
<1> QED
  BY <1>1, <1>2, <1>3, <1>4, <1>5, <1>6 DEF IInv

LEMMA ChildAskStep ==
  ASSUME IInv, ChildAsk
  PROVE  IInv'
<1> USE DEF ChildAsk, callVars, resVars, childVars, Goto
<1>a. PICK k \in Clients : pc[k] = "await" /\ Handled(k)
  BY BusyForClient DEF Busy
<1>b. \A e \in Clients : InCall(e) => e = k
  BY <1>a, Alone DEF InCall
<1>c. cmsg.ty = req[k].ty /\ cmsg.q \in Queries /\ model \in Models
  BY <1>a DEF Handled, Msg, IInv, TypeOK, Messages
<1>d. out = <<>> /\ in = <<>>
  BY <1>a DEF Handled
<1>1. TypeOK'
  <2>1. cval' \in Values
    BY <1>c, ValueTypes, ModelsAreLists
  <2>2. buf' \in Strings
    BY EncodingTypes DEF IInv, TypeOK
  <2> QED
    BY <2>1, <2>2 DEF IInv, TypeOK
<1>2. MutexInv'
  BY ProcAssumption DEF IInv, TypeOK, MutexInv, InCall
<1>3. OwnerInv'
  BY ProcAssumption DEF IInv, TypeOK, OwnerInv, Active, Holders
<1>4. CallInv'
  BY ProcAssumption DEF IInv, TypeOK, OwnerInv, CallInv, Active, Calling
<1>5. ChannelInv'
  BY <1>a, <1>b, <1>c, <1>d, Alone DEF IInv, InCall, ChannelInv, Handled, Active, Busy, Sent, Answered
<1>6. DataInv'
  BY <1>a, <1>b, <1>c, <1>d DEF IInv, InCall, DataInv, Applied, Written
<1> QED
  BY <1>1, <1>2, <1>3, <1>4, <1>5, <1>6 DEF IInv

LEMMA ChildSetVarsStep ==
  ASSUME IInv, ChildSetVars
  PROVE  IInv'
<1> USE DEF ChildSetVars, callVars, resVars, childVars, Goto
<1>a. PICK k \in Clients : pc[k] = "await" /\ Handled(k)
  BY BusyForClient DEF Busy
<1>b. \A e \in Clients : InCall(e) => e = k
  BY <1>a, Alone DEF InCall
<1>1. TypeOK'
  BY EncodingTypes, SetVarsType, ValueTypes DEF IInv, TypeOK
<1>2. MutexInv'
  BY ProcAssumption DEF IInv, TypeOK, MutexInv, InCall
<1>3. OwnerInv'
  BY ProcAssumption DEF IInv, TypeOK, OwnerInv, Active, Holders
<1>4. CallInv'
  BY ProcAssumption DEF IInv, TypeOK, OwnerInv, CallInv, Active, Calling
<1>5. ChannelInv'
  BY <1>a, <1>b, Alone DEF IInv, InCall, ChannelInv, Handled, Active, Busy, Sent, Answered
<1>6. DataInv'
  BY <1>a, <1>b DEF IInv, InCall, DataInv, Applied, Written, Handled, Msg
<1> QED
  BY <1>1, <1>2, <1>3, <1>4, <1>5, <1>6 DEF IInv

LEMMA ChildWriteStep ==
  ASSUME IInv, ChildWrite
  PROVE  IInv'
<1> USE DEF ChildWrite, callVars, resVars, childVars, Goto
<1>a. PICK k \in Clients : pc[k] = "await" /\ Handled(k)
  BY BusyForClient DEF Busy
<1>b. \A e \in Clients : InCall(e) => e = k
  BY <1>a, Alone DEF InCall
<1>c. Applied(k) /\ cmsg.ty = req[k].ty /\ req[k].ty \in {"DISP", "GET_VARS"}
  BY <1>a DEF Applied, Handled, Msg
<1>d. buf' \in Strings
  BY <1>c, WrittenTypes
<1>1. TypeOK'
  BY <1>d DEF IInv, TypeOK
<1>2. MutexInv'
  BY ProcAssumption DEF IInv, TypeOK, MutexInv, InCall
<1>3. OwnerInv'
  BY ProcAssumption DEF IInv, TypeOK, OwnerInv, Active, Holders
<1>4. CallInv'
  BY ProcAssumption DEF IInv, TypeOK, OwnerInv, CallInv, Active, Calling
<1>5. ChannelInv'
  BY <1>a, <1>b, Alone DEF IInv, InCall, ChannelInv, Handled, Active, Busy, Sent, Answered
<1>6. DataInv'
  BY <1>a, <1>b, <1>c DEF IInv, InCall, DataInv, Applied, Written, Handled
<1> QED
  BY <1>1, <1>2, <1>3, <1>4, <1>5, <1>6 DEF IInv

LEMMA ChildReplyStep ==
  ASSUME IInv, ChildReply
  PROVE  IInv'
<1> USE DEF ChildReply, callVars, resVars, childVars, Goto
<1>a. PICK k \in Clients : pc[k] = "await" /\ Handled(k)
  BY BusyForClient DEF Busy
<1>b. \A e \in Clients : InCall(e) => e = k
  BY <1>a, Alone DEF InCall
<1>c. cmsg.ty = req[k].ty /\ req[k].ty \in ReqTypes /\ out = <<>> /\ in = <<>>
  BY <1>a, RequestTypes DEF Handled, Msg, IInv, CallInv, Calling, Active
<1>d. Answered(k)'
  BY <1>c, OneElement DEF Answered
<1>1. TypeOK'
  <2>1. in' \in Seq(Replies)
    BY <1>c, MessageTypes, ValueTypes, QueueTypes DEF IInv, TypeOK
  <2> QED
    BY <2>1 DEF IInv, TypeOK
<1>2. MutexInv'
  BY ProcAssumption DEF IInv, TypeOK, MutexInv, InCall
<1>3. OwnerInv'
  BY ProcAssumption DEF IInv, TypeOK, OwnerInv, Active, Holders
<1>4. CallInv'
  BY ProcAssumption DEF IInv, TypeOK, OwnerInv, CallInv, Active, Calling
<1>5. ChannelInv'
  BY <1>a, <1>b, <1>d, Alone DEF IInv, InCall, ChannelInv, Active
<1>6. DataInv'
  BY <1>a, <1>b, <1>c, <1>d DEF IInv, InCall, DataInv, Applied, Written, Handled
<1> QED
  BY <1>1, <1>2, <1>3, <1>4, <1>5, <1>6 DEF IInv

LEMMA ChildDiesStep ==
  ASSUME IInv, ChildDies
  PROVE  IInv'
<1> USE DEF ChildDies, callVars, resVars, childVars, Goto
<1>1. TypeOK'
  BY RequestTypes, EncodingTypes, ValueTypes, MessageTypes, SetVarsType, ModelsAreLists DEF IInv, TypeOK, Places, CallInv, Calling, Active
<1>2. MutexInv'
  BY ProcAssumption DEF IInv, TypeOK, MutexInv, InCall
<1>3. OwnerInv'
  BY ProcAssumption DEF IInv, TypeOK, OwnerInv, Active, Holders
<1>4. CallInv'
  BY ProcAssumption DEF IInv, TypeOK, OwnerInv, CallInv, Active, Calling
<1>5. ChannelInv'
  BY OneElement, ProcAssumption DEF IInv, TypeOK, MutexInv, InCall, OwnerInv, CallInv, ChannelInv, Active, Calling, Sent, Handled, Answered, Quiet, Busy
<1>6. DataInv'
  BY OneElement, ProcAssumption DEF IInv, TypeOK, MutexInv, InCall, DataInv, Applied, Written, Quiet
<1> QED
  BY <1>1, <1>2, <1>3, <1>4, <1>5, <1>6 DEF IInv

-----------------------------------------------------------------------------
(* The invariant and the safety properties.                                *)

LEMMA Initially == Init => IInv
<1> SUFFICES ASSUME Init PROVE IInv
  OBVIOUS
<1> USE DEF Init
<1>1. TypeOK
  <2>1. cmsg \in Messages
    BY RequestTypes DEF NoMsg, Msg, Messages
  <2>2. model \in Models
    BY DataAssumption DEF DefaultModel, Models
  <2>3. out \in Seq(Messages) /\ in \in Seq(Replies)
    OBVIOUS
  <2>4. pc \in [Clients -> Places] /\ req \in [Clients -> Requests \cup {NoReq}]
    BY DEF Places
  <2>5. ret \in [Clients -> Values] /\ cval \in Values /\ buf \in Strings
    BY EncodingTypes, ValueTypes
  <2>6. bOk \in BOOLEAN /\ queues \in BOOLEAN /\ alive \in BOOLEAN
    OBVIOUS
  <2> QED
    BY <2>1, <2>2, <2>3, <2>4, <2>5, <2>6 DEF TypeOK
<1>2. MutexInv
  BY ProcAssumption DEF MutexInv, InCall
<1>3. OwnerInv /\ CallInv /\ DataInv
  BY ProcAssumption DEF OwnerInv, CallInv, DataInv, Calling, Active, Applied, Written
<1>4. ChannelInv
  BY ProcAssumption DEF ChannelInv, Quiet, Active
<1> QED
  BY <1>1, <1>2, <1>3, <1>4 DEF IInv

LEMMA Stutter == IInv /\ UNCHANGED vars => IInv'
<1> SUFFICES ASSUME IInv, UNCHANGED vars PROVE IInv'
  OBVIOUS
<1> USE DEF vars
<1>1. TypeOK' /\ MutexInv' /\ OwnerInv' /\ CallInv'
  BY DEF IInv, TypeOK, MutexInv, InCall, OwnerInv, CallInv
<1>2. ChannelInv'
  BY DEF IInv, ChannelInv, Sent, Handled, Answered, Quiet, Busy
<1>3. DataInv'
  BY DEF IInv, DataInv, Applied, Written
<1> QED
  BY <1>1, <1>2, <1>3 DEF IInv

LEMMA Inductive == IInv /\ [Next]_vars => IInv'
<1> SUFFICES ASSUME IInv, [Next]_vars PROVE IInv'
  OBVIOUS
<1>1. CASE Construct(Owner)
  BY <1>1, CreateFailsStep, ForkStep, HelloStep DEF Construct
<1>2. ASSUME NEW c \in Clients, NEW d \in Clients, ShallowCopy(c, d) PROVE IInv'
  BY <1>2, ShallowCopyStep
<1>3. ASSUME NEW c \in Clients, IsOkFailed(c) PROVE IInv'
  BY <1>3, IsOkFailedStep
<1>4. ASSUME NEW c \in Clients, NEW r \in Requests, Call(c, r) PROVE IInv'
  BY <1>4, CallStep
<1>5. ASSUME NEW c \in Clients, Proceed(c) PROVE IInv'
  BY <1>5, LockStep, ClearParsStep, WriteParsStep, SendStep, ReceiveStep, ReadStringStep DEF Proceed
<1>6. ASSUME NEW c \in Clients, Destroy(c) PROVE IInv'
  BY <1>6, DestroyStep
<1>7. ASSUME NEW c \in Clients, Destruct(c) PROVE IInv'
  BY <1>7, SendQuitStep, RemoveStep, FreeStep DEF Destruct
<1>8. CASE Child
  BY <1>8, ChildReadyStep, ChildReceiveStep, ChildAskStep, ChildSetVarsStep,
     ChildWriteStep, ChildReplyStep DEF Child
<1>9. CASE ChildDies
  BY <1>9, ChildDiesStep
<1>10. CASE Terminated \/ UNCHANGED vars
  BY <1>10, Stutter DEF Terminated
<1> QED
  BY <1>1, <1>2, <1>3, <1>4, <1>5, <1>6, <1>7, <1>8, <1>9, <1>10 DEF Next

\* For any number of objects, parameters, values and queries the invariant
\* holds in every reachable state, whether or not the child ends unasked.
THEOREM Invariance == Spec => []IInv
  BY Initially, Inductive, PTL DEF Spec

\* Every variable keeps its type.
THEOREM TypeCorrect == Spec => []TypeOK
<1>1. IInv => TypeOK
  BY DEF IInv
<1> QED
  BY <1>1, Invariance, PTL

\* At most one message is underway, so no queue fills up and no answer is left
\* over for a later caller.
THEOREM OneRequest == Spec => []OneRequestUnderway
<1>1. IInv => OneRequestUnderway
  <2> SUFFICES ASSUME IInv PROVE OneRequestUnderway
    OBVIOUS
  <2> DEFINE underway == Len(out) + Len(in) + (IF Busy THEN 1 ELSE 0)
  <2>1. Quiet => underway = 0
    BY DEF Quiet, Busy
  <2>2. ASSUME NEW c \in Clients, pc[c] = "await" PROVE underway = 1
    <3>1. \A x : Len(<<x>>) = 1
      BY OneElement
    <3>2. CASE Sent(c)
      BY <3>1, <3>2 DEF Sent, Busy
    <3>3. CASE Handled(c)
      BY <3>3 DEF Handled
    <3>4. CASE Answered(c)
      BY <3>1, <3>4 DEF Answered, Busy
    <3> QED
      BY <2>2, <3>2, <3>3, <3>4 DEF IInv, ChannelInv
  <2>3. ASSUME NEW c \in Clients, pc[c] \in {"clear", "write", "send", "read"} PROVE underway = 0
    BY <2>1, <2>3, Silence DEF InCall
  <2>4. ASSUME \A c \in Clients : pc[c] # "await" PROVE underway <= 1
    <3>1. CASE pc[Owner] = "hello"
      BY <3>1, OneElement DEF IInv, ChannelInv, Busy
    <3>2. CASE pc[Owner] \in {"remove", "free", "none"}
      <4>1. /\ in = <<>> /\ ~Busy
            /\ out = <<>> \/ out = <<Msg("QUIT", AnyQuery)>>
        BY <3>2 DEF IInv, ChannelInv, Busy
      <4>2. Len(<<Msg("QUIT", AnyQuery)>>) = 1 /\ Len(<<>>) = 0
        OBVIOUS
      <4>3. CASE out = <<>>
        BY <4>1, <4>2, <4>3 DEF Busy
      <4>4. CASE out = <<Msg("QUIT", AnyQuery)>>
        BY <4>1, <4>2, <4>4 DEF Busy
      <4> QED
        BY <4>1, <4>3, <4>4
    <3>3. CASE pc[Owner] \notin {"hello", "remove", "free", "none"}
      <4>1. Quiet
        BY <2>4, <3>3, ProcAssumption DEF IInv, TypeOK, Places, ChannelInv, Active
      <4> QED
        BY <4>1, <2>1
    <3> QED
      BY <3>1, <3>2, <3>3
  <2> QED
    BY <2>2, <2>3, <2>4 DEF OneRequestUnderway
<1> QED
  BY <1>1, Invariance, PTL

\* Callers need not look at the type of an answer.
THEOREM AnswersMatch == Spec => []AnswerMatchesRequest
<1>1. IInv => AnswerMatchesRequest
  BY OneElement DEF IInv, ChannelInv, AnswerMatchesRequest, Sent, Handled, Answered, Rep
<1> QED
  BY <1>1, Invariance, PTL

\* The string in shared memory needs no lock besides the mutex.
THEOREM OneUser == Spec => []StringHasOneUser
<1>1. IInv => StringHasOneUser
  <2> SUFFICES ASSUME IInv PROVE StringHasOneUser
    OBVIOUS
  <2>1. Busy => \E c \in Clients : pc[c] = "await"
    BY BusyForClient
  <2>2. \A c, d \in Clients : InCall(c) /\ InCall(d) => c = d
    BY DEF IInv, MutexInv
  <2> QED
    BY <2>1, <2>2 DEF StringHasOneUser, Busy
<1> QED
  BY <1>1, Invariance, PTL

\* No call is made, or is under way, once the child has been told to quit.
THEOREM QuitLast == Spec => []QuitIsLast
<1>1. IInv => QuitIsLast
  <2> SUFFICES ASSUME IInv,
                      child = "exited" \/ (\E i \in 1 .. Len(out) : out[i].ty = "QUIT")
               PROVE  \A c \in Clients : pc[c] \in {"none", "remove", "free"}
    BY DEF QuitIsLast
  <2>1. ~Quiet
    BY DEF Quiet
  <2>2. pc[Owner] # "hello"
    BY DEF IInv, ChannelInv
  <2>3. ASSUME NEW c \in Clients, pc[c] = "await" PROVE FALSE
    <3>1. req[c].ty # "QUIT"
      BY <2>3, RequestTypes DEF IInv, CallInv, Calling, Active, ReqTypes
    <3> QED
      BY <2>3, <3>1, OneElement DEF IInv, ChannelInv, Sent, Handled, Answered, Busy, Msg
  <2>4. pc[Owner] \in {"remove", "free", "none"}
    BY <2>1, <2>2, <2>3, ProcAssumption DEF IInv, TypeOK, Places, ChannelInv, Active
  <2> QED
    BY <2>4 DEF IInv, OwnerInv, Active
<1> QED
  BY <1>1, Invariance, PTL

\* The last destructor has removed the names and told the child to quit.
THEOREM Cleanup == Spec => []CleanedUp
<1>1. IInv => CleanedUp
  BY ProcAssumption, OneElement DEF IInv, ChannelInv, CleanedUp
<1> QED
  BY <1>1, Invariance, PTL

-----------------------------------------------------------------------------
(* The calls are atomic: every step is a step of SqwModel or a stutter.    *)

\* SqwModel shares the data of SqwProc.
LEMMA SameData ==
  /\ Abstract!NoVal = NoVal /\ Abstract!DefaultModel = DefaultModel
  /\ Abstract!NoReq = NoReq /\ Abstract!Requests = Requests
  /\ \A b : Abstract!Flag(b) = Flag(b)
  /\ \A m, r : Abstract!Effect(m, r) = Effect(m, r) /\ Abstract!Answer(m, r) = Answer(m, r)
<1>1. Abstract!NoVal = NoVal /\ \A b : Abstract!Flag(b) = Flag(b)
  BY DEF Abstract!NoVal, NoVal, Abstract!Flag, Flag
<1>2. Abstract!DefaultModel = DefaultModel
  BY DEF Abstract!DefaultModel, DefaultModel, Abstract!Pars, Pars
<1>3. Abstract!AnyQuery = AnyQuery /\ Abstract!NoList = NoList /\ Abstract!VarLists = VarLists
  BY DEF Abstract!AnyQuery, AnyQuery, Abstract!NoList, NoList, Abstract!VarLists, VarLists,
     Abstract!Pars, Pars
<1>4. \A ty, q, l : Abstract!Req(ty, q, l) = Req(ty, q, l)
  BY DEF Abstract!Req, Req
<1>5. Abstract!NoReq = NoReq /\ Abstract!Requests = Requests
  BY <1>3, <1>4 DEF Abstract!NoReq, NoReq, Abstract!Requests, Requests
<1>6. \A l, S : Abstract!Restriction(l, S) = Restriction(l, S)
  BY DEF Abstract!Restriction, Restriction
<1>7. \A l : Abstract!pars_to_str(l) = pars_to_str(l)
  BY <1>6 DEF Abstract!Cardinality, Cardinality, Abstract!pars_to_str, pars_to_str, Abstract!ParStr, ParStr
<1>8. \A s : Abstract!str_to_pars(s) = str_to_pars(s)
  BY <1>6 DEF Abstract!str_to_pars, str_to_pars
<1>9. \A l : Abstract!Transmit(l) = Transmit(l)
  BY <1>7, <1>8 DEF Abstract!Transmit, Transmit
<1>10. \A m, l : Abstract!ModelSetVars(m, l) = ModelSetVars(m, l)
  BY DEF Abstract!ModelSetVars, ModelSetVars, Abstract!Pars, Pars
<1>11. \A m, r : Abstract!Effect(m, r) = Effect(m, r)
  BY <1>9, <1>10 DEF Abstract!Effect, Effect
<1>12. \A q, m : Abstract!disp_to_str(q, m) = disp_to_str(q, m)
  BY DEF Abstract!disp_to_str, disp_to_str, Abstract!DispStr, DispStr, Abstract!ClearStr, ClearStr
<1>13. \A s : Abstract!str_to_disp(s) = str_to_disp(s)
  BY DEF Abstract!str_to_disp, str_to_disp, Abstract!Branches, Branches,
     Abstract!NoBranches, NoBranches, Abstract!Garbage, Garbage
<1>14. \A m, r : Abstract!Answer(m, r) = Answer(m, r)
  BY <1>1, <1>9, <1>12, <1>13 DEF Abstract!Answer, Answer, Abstract!Weight, Weight,
     Abstract!VarsVal, VarsVal
<1> QED
  BY <1>1, <1>2, <1>5, <1>11, <1>14

\* Steps that change no phase, no answer on its way and nothing the abstract
\* specification shares are stuttering steps.
LEMMA Silent ==
  ASSUME UNCHANGED <<bOk, model, req, ret>>,
         \A d \in Clients : /\ Phase(d)' = Phase(d)
                            /\ Applied(d) <=> Phase(d) = "applied"
                            /\ Applied(d)' <=> Phase(d)' = "applied"
                            /\ Applied(d) => Arriving(d)' = Arriving(d)
  PROVE  UNCHANGED Abstract!vars
<1>1. [d \in Clients |-> Phase(d)]' = [d \in Clients |-> Phase(d)]
  OBVIOUS
<1>2. [d \in Clients |-> IF Applied(d) THEN Arriving(d) ELSE NoVal]'
        = [d \in Clients |-> IF Applied(d) THEN Arriving(d) ELSE NoVal]
  OBVIOUS
<1> QED
  BY <1>1, <1>2 DEF Abstract!vars

LEMMA Phases == \A d \in Clients : Applied(d) <=> Phase(d) = "applied"
  BY DEF Phase

\* A client that moves on within a call, or outside of one.
LEMMA ClientSilent ==
  ASSUME IInv, NEW c \in Clients, NEW l,
         pc' = [pc EXCEPT ![c] = l],
         UNCHANGED <<bOk, model, req, ret, in, child, cval>>,
         \/ pc[c] \in {"lock", "clear", "write", "send"} /\ l \in {"clear", "write", "send"}
         \/ pc[c] = "send" /\ l = "await" /\ in = <<>> /\ child = "recv"
         \/ pc[c] \notin Calling /\ l \in {"idle", "hello", "free", "quit", "remove", "none"}
  PROVE  UNCHANGED Abstract!vars
<1>1. \A d \in Clients : pc'[d] = IF d = c THEN l ELSE pc[d]
  BY DEF IInv, TypeOK
<1>2. \A d \in Clients : Applied(d)' <=> Applied(d)
  BY <1>1 DEF Applied, Calling, Active
<1>3. \A d \in Clients : Phase(d)' = Phase(d)
  BY <1>1, <1>2 DEF Phase, Applied, Calling, Active
<1>4. \A d \in Clients : Arriving(d)' = Arriving(d)
  BY DEF Arriving
<1>5. \A d \in Clients : Applied(d)' <=> Phase(d)' = "applied"
  BY Phases, <1>2, <1>3
<1> QED
  BY <1>3, <1>4, <1>5, Phases, Silent

\* Construction: the model opens when the child has said that it is usable.
LEMMA ConstructMaps ==
  ASSUME IInv, Construct(Owner)
  PROVE  [Abstract!Next]_(Abstract!vars)
<1> USE DEF callVars, resVars, childVars, Goto
<1>1. CASE CreateFails(Owner)
  BY <1>1, ClientSilent, ProcAssumption DEF CreateFails, Calling, Active
<1>2. ASSUME Fork(Owner) \/ Hello(Owner)
      PROVE  /\ \A c \in Clients : Phase(c) = "idle" /\ Phase(c)' = "idle"
             /\ \A c \in Clients : ~Applied(c) /\ ~Applied(c)'
             /\ UNCHANGED <<model, req, ret>>
  <2>1. \A c \in Clients : pc[c] \in {"none", "ctor", "hello"} /\ pc'[c] \in {"none", "hello", "idle"}
    BY <1>2, ProcAssumption DEF Fork, Hello, IInv, TypeOK, OwnerInv, Active
  <2> QED
    BY <1>2, <2>1 DEF Phase, Applied, Fork, Hello
<1>3. CASE Fork(Owner)
  <2>1. UNCHANGED bOk
    BY <1>3 DEF Fork
  <2> QED
    BY <1>2, <1>3, <2>1, Silent
<1>4. CASE Hello(Owner)
  <2>1. PICK b \in BOOLEAN : in = <<Rep("READY", Flag(b))>>
    BY <1>4 DEF Hello, IInv, ChannelInv
  <2>2. bOk' = b
    BY <1>4, <2>1, OneElement DEF Hello, Rep, Flag
  <2>3. /\ [d \in Clients |-> Phase(d)]' = [d \in Clients |-> Phase(d)]
        /\ [d \in Clients |-> IF Applied(d) THEN Arriving(d) ELSE NoVal]'
             = [d \in Clients |-> IF Applied(d) THEN Arriving(d) ELSE NoVal]
    BY <1>2, <1>4
  <2>4. ~bOk
    BY <1>4 DEF Hello, IInv, CallInv
  <2>5. CASE b
    BY <2>5, <2>2, <2>3, <1>2, <1>4 DEF Abstract!Next, Abstract!Open
  <2>6. CASE ~b
    <3>1. UNCHANGED bOk
      BY <2>2, <2>4, <2>6 DEF IInv, TypeOK
    <3> QED
      BY <3>1, <1>2, <1>4, Silent
  <2> QED
    BY <2>5, <2>6
<1> QED
  BY <1>1, <1>3, <1>4 DEF Construct

\* Copying, destruction and the steps of a call up to its request.
LEMMA SilentClientSteps ==
  ASSUME IInv, NEW c \in Clients,
         \/ \E d \in Clients : ShallowCopy(c, d)
         \/ Lock(c) \/ ClearPars(c) \/ WritePars(c) \/ Send(c)
         \/ Destroy(c) \/ Destruct(c)
  PROVE  UNCHANGED Abstract!vars
<1> USE DEF callVars, resVars, childVars, Goto, Calling, Active
<1>1. ASSUME NEW d \in Clients, ShallowCopy(c, d) PROVE UNCHANGED Abstract!vars
  BY <1>1, ClientSilent DEF ShallowCopy
<1>2. CASE Lock(c)
  <2>1. CASE req[c].ty = "SET_VARS"
    BY <1>2, <2>1, ClientSilent DEF Lock
  <2>2. CASE req[c].ty # "SET_VARS"
    BY <1>2, <2>2, ClientSilent DEF Lock
  <2> QED
    BY <2>1, <2>2
<1>3. CASE ClearPars(c)
  BY <1>3, ClientSilent DEF ClearPars
<1>4. CASE WritePars(c)
  BY <1>4, ClientSilent DEF WritePars
<1>5. CASE Send(c)
  <2>1. in = <<>> /\ child = "recv"
    BY <1>5, Silence DEF Send, InCall, Quiet
  <2> QED
    BY <1>5, <2>1, ClientSilent DEF Send
<1>6. CASE Destroy(c) \/ Destruct(c)
  BY <1>6, ClientSilent DEF Destroy, Destruct, SendQuit, Remove, Free
<1> QED
  BY <1>1, <1>2, <1>5, <1>6, <1>3, <1>4

\* The child moves a message on, or ends.
LEMMA SilentChildSteps ==
  ASSUME IInv, ChildReady \/ ChildReceive \/ ChildWrite \/ ChildReply \/ ChildDies
  PROVE  UNCHANGED Abstract!vars
<1> USE DEF callVars, resVars, childVars
<1>1. \A c \in Clients : (Applied(c)' <=> Applied(c)) /\ Phase(c)' = Phase(c)
  <2>1. CASE ChildReady
    <3>1. \A c \in Clients : pc[c] # "await" /\ pc'[c] = pc[c]
      BY <2>1 DEF ChildReady, IInv, ChannelInv, Sent, Handled, Answered, Busy
    <3> QED
      BY <3>1 DEF Applied, Phase
  <2>2. CASE ChildReceive \/ ChildWrite \/ ChildDies
    <3>1. /\ UNCHANGED <<pc, in>>
          /\ child' \in {"write", "reply"} <=> child \in {"write", "reply"}
      BY <2>2 DEF ChildReceive, ChildWrite, ChildDies
    <3> QED
      BY <3>1 DEF Applied, Phase
  <2>3. CASE ChildReply
    <3>1. child = "reply" /\ UNCHANGED pc /\ in' # <<>>
      BY <2>3 DEF ChildReply, IInv, TypeOK
    <3> QED
      BY <3>1 DEF Applied, Phase
  <2> QED
    BY <2>1, <2>2, <2>3
<1>2. UNCHANGED <<bOk, model, req, ret, cval>>
  BY DEF ChildReady, ChildReceive, ChildWrite, ChildReply, ChildDies
<1>3. \A c \in Clients : Arriving(c)' = Arriving(c)
  BY <1>2 DEF Arriving
<1>4. \A c \in Clients : Applied(c)' <=> Phase(c)' = "applied"
  BY <1>1, Phases
<1> QED
  BY <1>1, <1>2, <1>3, <1>4, Phases, Silent

\* Invocation, and the refusal of a model that is not set up.
LEMMA InvokeMaps ==
  ASSUME IInv, NEW c \in Clients, NEW r \in Requests, Call(c, r)
  PROVE  Abstract!Invoke(c, r)
<1>1. /\ pc[c] = "idle" /\ pc'[c] = "lock" /\ UNCHANGED <<bOk, model, in, child, cval>>
      /\ \A d \in Clients : d # c => pc'[d] = pc[d]
      /\ \A d \in Clients : d # c => req'[d] = req[d]
  BY DEF Call, resVars, childVars, Goto, IInv, TypeOK
<1>2. Phase(c) = "idle" /\ Phase(c)' = "called" /\ ~Applied(c) /\ ~Applied(c)'
  BY <1>1 DEF Phase, Applied
<1>3. \A d \in Clients : d # c => /\ Applied(d)' <=> Applied(d)
                                 /\ Arriving(d)' = Arriving(d)
  BY <1>1 DEF Applied, Arriving
<1>4. \A d \in Clients : d # c => Phase(d)' = Phase(d)
  BY <1>1 DEF Phase, Applied
<1>5. \A d \in Clients : d # c => (IF Applied(d) THEN Arriving(d) ELSE NoVal)'
                                 = (IF Applied(d) THEN Arriving(d) ELSE NoVal)
  BY <1>3
<1>6. [d \in Clients |-> Phase(d)]' = [[d \in Clients |-> Phase(d)] EXCEPT ![c] = "called"]
  BY <1>2, <1>4
<1>7. [d \in Clients |-> IF Applied(d) THEN Arriving(d) ELSE NoVal]'
        = [d \in Clients |-> IF Applied(d) THEN Arriving(d) ELSE NoVal]
  BY <1>2, <1>5
<1> QED
  BY <1>1, <1>2, <1>6, <1>7, SameData DEF Abstract!Invoke, Call

LEMMA RefuseMaps ==
  ASSUME IInv, NEW c \in Clients, IsOkFailed(c)
  PROVE  Abstract!Refuse(c)
<1>1. Phase(c) = "idle"
  BY DEF IsOkFailed, Phase, Applied
<1>2. /\ [d \in Clients |-> Phase(d)]' = [d \in Clients |-> Phase(d)]
      /\ [d \in Clients |-> IF Applied(d) THEN Arriving(d) ELSE NoVal]'
           = [d \in Clients |-> IF Applied(d) THEN Arriving(d) ELSE NoVal]
  BY DEF IsOkFailed, Phase, Applied, Arriving, resVars, childVars
<1> QED
  BY <1>1, <1>2, SameData DEF Abstract!Refuse, IsOkFailed, callVars, resVars, childVars

\* The call takes effect when the model in the child is asked or set.
LEMMA ApplyMaps ==
  ASSUME IInv, ChildAsk \/ ChildSetVars
  PROVE  \E c \in Clients : Abstract!Apply(c)
<1> USE DEF callVars, resVars
<1>1. child = "work" /\ child' \in {"write", "reply"} /\ UNCHANGED <<pc, req, ret, bOk, in>>
  BY DEF ChildAsk, ChildSetVars
<1>2. PICK k \in Clients : pc[k] = "await" /\ Handled(k)
  BY <1>1, BusyForClient DEF Busy
<1>3. \A d \in Clients : d # k => ~InCall(d)
  BY <1>2, Alone DEF InCall
<1>4. cmsg.ty = req[k].ty /\ cmsg.q = req[k].q /\ req[k] \in Requests /\ in = <<>>
  BY <1>2 DEF Handled, Msg, IInv, CallInv, Calling, Active
<1>5. ~Applied(k) /\ Applied(k)' /\ Phase(k) = "called" /\ Phase(k)' = "applied"
  BY <1>1, <1>2, <1>4 DEF Applied, Phase
<1>6. \A d \in Clients : d # k => ~Applied(d) /\ ~Applied(d)' /\ Phase(d)' = Phase(d)
  BY <1>1, <1>3 DEF Applied, Phase, InCall
<1>7. Arriving(k)' = Answer(model, req[k]) /\ model' = Effect(model, req[k])
  <2>1. CASE ChildAsk
    BY <2>1, <1>1, <1>4 DEF ChildAsk, Arriving, Answer, Effect, Branches, VarsVal, Flag, Weight
  <2>2. CASE ChildSetVars
    <3>1. buf = pars_to_str(req[k].l)
      BY <2>2, <1>2, <1>4, <1>5 DEF ChildSetVars, IInv, DataInv
    <3> QED
      BY <2>2, <3>1, <1>1, <1>4 DEF ChildSetVars, Arriving, Answer, Effect, Transmit
  <2> QED
    BY <2>1, <2>2
<1>8. [d \in Clients |-> Phase(d)]' = [[d \in Clients |-> Phase(d)] EXCEPT ![k] = "applied"]
  BY <1>5, <1>6
<1>9. [d \in Clients |-> IF Applied(d) THEN Arriving(d) ELSE NoVal]'
        = [[d \in Clients |-> IF Applied(d) THEN Arriving(d) ELSE NoVal]
             EXCEPT ![k] = Answer(model, req[k])]
  BY <1>5, <1>6, <1>7
<1> QED
  BY <1>1, <1>5, <1>7, <1>8, <1>9, SameData DEF Abstract!Apply

\* A call whose answer arrives returns what the model answered.
LEMMA ReturnMaps ==
  ASSUME IInv, NEW c \in Clients, NEW v,
         Applied(c), v = Arriving(c), Finish(c, v),
         UNCHANGED <<bOk, model, child>>
  PROVE  Abstract!Return(c)
<1> USE DEF Finish, Goto
<1>1. pc'[c] = "idle" /\ \A d \in Clients : d # c => pc'[d] = pc[d] /\ req'[d] = req[d]
  BY DEF IInv, TypeOK
<1>2. ~Applied(c)' /\ Phase(c) = "applied" /\ Phase(c)' = "idle"
  BY <1>1 DEF Applied, Phase
<1>3. \A d \in Clients : d # c => ~InCall(d)
  BY Alone DEF Applied, InCall
<1>4. \A d \in Clients : d # c => ~Applied(d) /\ ~Applied(d)' /\ Phase(d)' = Phase(d)
  BY <1>1, <1>3 DEF Applied, Phase, InCall
<1>5. [d \in Clients |-> Phase(d)]' = [[d \in Clients |-> Phase(d)] EXCEPT ![c] = "idle"]
  BY <1>2, <1>4
<1>6. [d \in Clients |-> IF Applied(d) THEN Arriving(d) ELSE NoVal]'
        = [[d \in Clients |-> IF Applied(d) THEN Arriving(d) ELSE NoVal] EXCEPT ![c] = NoVal]
  BY <1>2, <1>4
<1> QED
  BY <1>2, <1>5, <1>6, SameData DEF Abstract!Return

LEMMA AnswerMaps ==
  ASSUME IInv, NEW c \in Clients, Receive(c) \/ ReadString(c)
  PROVE  [Abstract!Next]_(Abstract!vars)
<1> USE DEF resVars, childVars, callVars
<1>1. CASE Receive(c) /\ req[c].ty \notin {"DISP", "GET_VARS"}
  <2>1. Answered(c) /\ Applied(c)
    BY <1>1, OneElement DEF Receive, IInv, ChannelInv, Sent, Handled, Answered, Applied
  <2>2. Head(in).val = Arriving(c)
    BY <1>1, <2>1, OneElement DEF Answered, Rep, Arriving
  <2> QED
    BY <1>1, <2>1, <2>2, ReturnMaps DEF Receive, Abstract!Next
<1>2. CASE Receive(c) /\ req[c].ty \in {"DISP", "GET_VARS"}
  <2>1. pc'[c] = "read" /\ \A d \in Clients : d # c => pc'[d] = pc[d]
    BY <1>2 DEF Receive, Goto, IInv, TypeOK
  <2>2. \A d \in Clients : d # c => ~InCall(d)
    BY <1>2, Alone DEF Receive, InCall
  <2>3. UNCHANGED <<bOk, model, req, ret, cval>>
    BY <1>2 DEF Receive
  <2>4. Applied(c) /\ Applied(c)' /\ Phase(c)' = Phase(c)
    BY <1>2, <2>1 DEF Receive, Applied, Phase
  <2>5. \A d \in Clients : d # c => ~Applied(d) /\ ~Applied(d)' /\ Phase(d)' = Phase(d)
    BY <2>1, <2>2 DEF Applied, Phase, InCall
  <2>6. \A d \in Clients : /\ Phase(d)' = Phase(d)
                           /\ Applied(d)' <=> Phase(d)' = "applied"
                           /\ Arriving(d)' = Arriving(d)
    BY <2>3, <2>4, <2>5, Phases DEF Arriving
  <2> QED
    BY <2>3, <2>6, Phases, Silent
<1>3. CASE ReadString(c)
  <2>1. Applied(c) /\ Written(c)
    BY <1>3, Silence DEF ReadString, Applied, Written, InCall
  <2>2. req[c].ty \in {"DISP", "GET_VARS"}
    BY <1>3 DEF ReadString, IInv, CallInv
  <2>3. (IF req[c].ty = "DISP" THEN str_to_disp(buf) ELSE VarsVal(str_to_pars(buf))) = Arriving(c)
    BY <2>1, <2>2 DEF IInv, DataInv, Arriving, Transmit
  <2> QED
    BY <1>3, <2>1, <2>3, ReturnMaps DEF ReadString, Abstract!Next
<1> QED
  BY <1>1, <1>2, <1>3 DEF Receive

LEMMA StepMaps == IInv /\ [Next]_vars => [Abstract!Next]_(Abstract!vars)
<1> SUFFICES ASSUME IInv, [Next]_vars PROVE [Abstract!Next]_(Abstract!vars)
  OBVIOUS
<1>1. CASE Construct(Owner)
  BY <1>1, ConstructMaps
<1>2. ASSUME NEW c \in Clients, NEW d \in Clients, ShallowCopy(c, d)
      PROVE  UNCHANGED Abstract!vars
  BY <1>2, SilentClientSteps
<1>3. ASSUME NEW c \in Clients, IsOkFailed(c) PROVE Abstract!Next
  BY <1>3, RefuseMaps DEF Abstract!Next
<1>4. ASSUME NEW c \in Clients, NEW r \in Requests, Call(c, r) PROVE Abstract!Next
  BY <1>4, InvokeMaps, SameData DEF Abstract!Next
<1>5. ASSUME NEW c \in Clients, Proceed(c) PROVE [Abstract!Next]_(Abstract!vars)
  BY <1>5, SilentClientSteps, AnswerMaps DEF Proceed
<1>6. ASSUME NEW c \in Clients, Destroy(c) \/ Destruct(c) PROVE UNCHANGED Abstract!vars
  BY <1>6, SilentClientSteps
<1>7. CASE Child \/ ChildDies
  BY <1>7, SilentChildSteps, ApplyMaps DEF Child, Abstract!Next
<1>8. CASE Terminated \/ UNCHANGED vars
  <2>1. UNCHANGED vars
    BY <1>8 DEF Terminated
  <2>2. UNCHANGED <<pc, req, ret, bOk, in, child, cval, model>>
    BY <2>1 DEF vars
  <2>3. \A d \in Clients : /\ Phase(d)' = Phase(d)
                           /\ Applied(d)' <=> Phase(d)' = "applied"
                           /\ Arriving(d)' = Arriving(d)
    BY <2>2, Phases DEF Phase, Applied, Arriving
  <2> QED
    BY <2>2, <2>3, Phases, Silent
<1> QED
  BY <1>1, <1>2, <1>3, <1>4, <1>5, <1>6, <1>7, <1>8 DEF Next

\* For any number of objects, parameters, values and queries a client sees a
\* model whose calls take effect one at a time, each on one set of parameters.
THEOREM Atomicity == Spec => ImplementsSqwModel
<1>1. Init => Abstract!Init
  <2> SUFFICES ASSUME Init PROVE Abstract!Init
    OBVIOUS
  <2>1. \A c \in Clients : ~Applied(c) /\ Phase(c) = "idle"
    BY DEF Init, Applied, Phase
  <2> QED
    BY <2>1, SameData DEF Init, Abstract!Init
<1> QED
  BY <1>1, StepMaps, Invariance, PTL DEF Spec, ImplementsSqwModel, Abstract!Spec
=============================================================================
