---------------------------- MODULE Windows_proofs ---------------------------
(***************************************************************************)
(* Proofs about the two windows.  The main window: the values that a       *)
(* connection brings to the table and the scene, for any keys, parameters  *)
(* and values and queues of any length; and its session, for any crystals, *)
(* peaks, lists and files: the goto dialog reaches its position, the       *)
(* scenes show the crystal of the fields, and a session is loaded as it    *)
(* was saved.  The scan viewer, for any directories, files, number of rows *)
(* and values of the spin boxes: the list follows the directory, and what  *)
(* is drawn, written and fitted are the rows that were asked for.          *)
(***************************************************************************)
EXTENDS NetValues, Session, ScanViewer, FiniteSetTheorems, TLAPS

-----------------------------------------------------------------------------
(* Values of a connection.                                                 *)

\* An event appended to a queue, and the first one taken from it.
LEMMA AppendFacts ==
  ASSUME NEW S, NEW q \in Seq(S), NEW e \in S
  PROVE  /\ Append(q, e) \in Seq(S)
         /\ Len(q) \in Nat /\ Len(Append(q, e)) = Len(q) + 1
         /\ \A i \in 1 .. Len(q) : Append(q, e)[i] = q[i]
         /\ Append(q, e)[Len(q) + 1] = e
  OBVIOUS

LEMMA TailFacts ==
  ASSUME NEW S, NEW q \in Seq(S), q # <<>>
  PROVE  /\ Tail(q) \in Seq(S)
         /\ Len(q) \in Nat /\ Len(q) >= 1 /\ Len(Tail(q)) = Len(q) - 1
         /\ Head(q) = q[1] /\ q[1] \in S
         /\ \A i \in 1 .. Len(q) - 1 : Tail(q)[i] = q[i + 1]
  OBVIOUS

\* The initial states satisfy the invariant.
LEMMA NvInitInv == NvInit => NvIInv
<1>. SUFFICES ASSUME NvInit PROVE NvIInv
  OBVIOUS
<1>. USE ValuesAssumption DEF NvInit, NoRow
<1>1. NvTypeOK
  BY DEF NvTypeOK, None, Vals
<1>2. OrderInv /\ LastInv
  BY DEF OrderInv, LastInv
<1>3. RowsInv /\ RowsTrue
  BY DEF RowsInv, RowsTrue, None
<1>. QED
  BY <1>1, <1>2, <1>3 DEF NvIInv

\* What a step must do for the table's part of the invariant.
Quiet ==
  /\ UNCHANGED <<conn, queue, rows, lastval, stale>>

LEMMA QuietKeeps == OrderInv /\ LastInv /\ RowsInv /\ RowsTrue /\ Quiet
                      => (OrderInv /\ LastInv /\ RowsInv /\ RowsTrue)'
  BY DEF Quiet, OrderInv, LastInv, RowsInv, RowsTrue, Underway

-----------------------------------------------------------------------------
(* The steps.                                                              *)

\* A new connection: the table is empty, and all events are of earlier ones.
LEMMA ConnectKeeps ==
  ASSUME NvIInv, NEW s \in Systems, ConnectTo(s) PROVE NvIInv'
<1>. USE ValuesAssumption DEF NvIInv, ConnectTo
<1>1. NvTypeOK'
  BY DEF NvTypeOK, None, Vals, NoRow
<1>2. conn \in Nat /\ conn' = conn + 1 /\ queue' = queue
  BY DEF NvTypeOK
<1>3. OrderInv'
  <2>1. \A i \in 1 .. Len(queue) : queue[i].conn <= conn /\ queue[i].conn \in Nat
    <3>1. \A i \in 1 .. Len(queue) : queue[i] \in Events
      BY DEF NvTypeOK
    <3>. QED
      BY <3>1 DEF OrderInv, Events
  <2>2. \A i \in 1 .. Len(queue) : queue[i].key \in stale'
    OBVIOUS
  <2>3. \A i \in 1 .. Len(queue) : queue[i].conn <= conn + 1 /\ queue[i].conn # conn + 1
    <3>. HIDE DEF NvIInv, ConnectTo
    <3>. QED
      BY <1>2, <2>1
  <2>4. \A i, j \in 1 .. Len(queue) : i < j => queue[i].conn <= queue[j].conn
    BY DEF OrderInv
  <2>. HIDE DEF NvIInv, ConnectTo
  <2>. QED
    BY <1>2, <2>2, <2>3, <2>4 DEF OrderInv
<1>4. LastInv'
  <2>1. \A i \in 1 .. Len(queue) : queue[i].key # "none" => lastval'[queue[i].key] = None
    <3>1. \A i \in 1 .. Len(queue) : queue[i] \in Events
      BY DEF NvTypeOK
    <3>. QED
      BY <3>1 DEF Events
  <2>. QED
    BY <1>2, <2>1 DEF LastInv
<1>5. RowsInv' /\ RowsTrue'
  BY <1>2 DEF RowsInv, RowsTrue, NoRow, None
<1>. QED
  BY <1>1, <1>3, <1>4, <1>5

\* An event without a value, at the end of the queue.
LEMMA AppendNoneKeeps ==
  ASSUME NvIInv, NEW e \in Events, e.key = "none", e.conn = conn,
         queue' = Append(queue, e), UNCHANGED <<conn, rows, lastval, stale>>
  PROVE  (OrderInv /\ LastInv /\ RowsInv /\ RowsTrue)'
<1>1. /\ Len(queue) \in Nat /\ Len(queue') = Len(queue) + 1
      /\ \A i \in 1 .. Len(queue) : queue'[i] = queue[i] /\ queue[i] \in Events
      /\ queue'[Len(queue) + 1] = e /\ conn \in Nat
  BY AppendFacts DEF NvIInv, NvTypeOK
<1>2. OrderInv'
  BY <1>1 DEF NvIInv, OrderInv, Events
<1>3. LastInv'
  <2>. SUFFICES ASSUME NEW i \in 1 .. Len(queue'),
                       queue'[i].key # "none", lastval[queue'[i].key] # None,
                       \A j \in i + 1 .. Len(queue') : queue'[j].key # queue'[i].key
                PROVE  /\ queue'[i].conn = conn
                       /\ queue'[i].val = lastval[queue'[i].key]
    BY DEF LastInv
  <2>1. i \in 1 .. Len(queue)
    BY <1>1
  <2>2. \A j \in i + 1 .. Len(queue) : queue[j].key # queue[i].key
    BY <1>1, <2>1
  <2>. QED
    BY <1>1, <2>1, <2>2 DEF NvIInv, LastInv
<1>4. \A k \in Keys : Underway(k) => Underway(k)'
  BY <1>1 DEF Underway
<1>5. RowsInv' /\ RowsTrue'
  BY <1>4 DEF NvIInv, RowsInv, RowsTrue
<1>. QED
  BY <1>2, <1>3, <1>5

\* A value is stored and posted.
LEMMA ReceiveKeeps ==
  ASSUME NvIInv, NEW k \in Keys, NEW v \in Vals, Receive(k, v) PROVE NvIInv'
<1>. USE ValuesAssumption DEF Receive
<1>1. Value(k, v) \in Events /\ k # "none" /\ v # None
  <2>1. conn \in Nat
    BY DEF NvIInv, NvTypeOK
  <2>2. Unchanged \in [{} -> Settings]
    BY DEF Unchanged
  <2>3. Unchanged \in UNION {[S -> Settings] : S \in SUBSET Parameters}
    BY <2>2
  <2>4. v # None
    BY DEF Vals, None
  <2>. QED
    BY <2>1, <2>3, <2>4 DEF Value, Events
<1>2. /\ Len(queue) \in Nat /\ Len(queue') = Len(queue) + 1
      /\ queue' \in Seq(Events)
      /\ \A i \in 1 .. Len(queue) : queue'[i] = queue[i] /\ queue[i] \in Events
      /\ queue'[Len(queue) + 1] = Value(k, v) /\ conn \in Nat
  BY <1>1, AppendFacts DEF NvIInv, NvTypeOK
<1>3. lastval' = [lastval EXCEPT ![k] = v]
      /\ lastval \in [Keys -> Vals \union {None}]
      /\ UNCHANGED <<conn, sys, rows, stale>>
  BY DEF NvIInv, NvTypeOK, connvars
<1>4. NvTypeOK'
  <2>1. cached' \in [Keys -> Vals \union {None}]
        /\ slot' \in [key : Keys, val : Vals]
    BY DEF NvIInv, NvTypeOK
  <2>2. lastval' \in [Keys -> Vals \union {None}]
    BY <1>3
  <2>. QED
    BY <1>2, <1>3, <2>1, <2>2 DEF NvIInv, NvTypeOK
<1>5. OrderInv'
  <2>1. \A x \in Keys : lastval[x] # None => lastval'[x] # None
    BY <1>1, <1>3
  <2>2. Value(k, v).conn = conn /\ Value(k, v).key = k
    BY DEF Value
  <2>3. lastval'[k] = v
    BY <1>3
  <2>. QED
    BY <1>1, <1>2, <1>3, <2>1, <2>2, <2>3 DEF NvIInv, OrderInv, Events
<1>6. LastInv'
  <2>. SUFFICES ASSUME NEW i \in 1 .. Len(queue'),
                       queue'[i].key # "none", lastval'[queue'[i].key] # None,
                       \A j \in i + 1 .. Len(queue') : queue'[j].key # queue'[i].key
                PROVE  /\ queue'[i].conn = conn'
                       /\ queue'[i].val = lastval'[queue'[i].key]
    BY DEF LastInv
  <2>1. CASE i = Len(queue) + 1
    BY <1>2, <1>3, <2>1 DEF Value
  <2>2. CASE i \in 1 .. Len(queue)
    <3>1. queue'[i] = queue[i] /\ queue[i].key # k
      BY <1>2, <2>2 DEF Value
    <3>2. \A j \in i + 1 .. Len(queue) : queue[j].key # queue[i].key
      BY <1>2, <2>2, <3>1
    <3>3. lastval'[queue[i].key] = lastval[queue[i].key]
      BY <1>2, <1>3, <2>2, <3>1 DEF Events
    <3>. QED
      BY <1>3, <2>2, <3>1, <3>2, <3>3 DEF NvIInv, LastInv
  <2>. QED
    BY <1>2, <2>1, <2>2
<1>7. RowsInv' /\ RowsTrue'
  <2>1. \A x \in Keys : Underway(x) \/ x = k => Underway(x)'
    BY <1>2 DEF Underway, Value
  <2>2. \A x \in Keys : x # k => lastval'[x] = lastval[x]
    BY <1>3
  <2>3. lastval'[k] # None
    BY <1>1, <1>3
  <2>. QED
    BY <1>3, <2>1, <2>2, <2>3 DEF NvIInv, RowsInv, RowsTrue
<1>. QED
  BY <1>4, <1>5, <1>6, <1>7 DEF NvIInv

\* The parameters that change are posted.
LEMMA PassOnKeeps == ASSUME NvIInv, PassOn PROVE NvIInv'
<1>. USE ValuesAssumption DEF PassOn
<1>. DEFINE new == [p \in PassedOn |-> NewValue(p)]
<1>1. Change(new) \in Events
  <2>1. PassedOn \in SUBSET Parameters
    BY DEF PassedOn, Affected
  <2>2. \A p \in PassedOn : NewValue(p) \in Settings
    <3>. SUFFICES ASSUME NEW p \in Parameters PROVE NewValue(p) \in Settings
      BY <2>1
    <3>1. Sources[sys][p] \in SUBSET Keys
      BY DEF NvIInv, NvTypeOK
    <3>2. CachedValue(p) \in [Sources[sys][p] -> Vals \union {None}]
      BY <3>1 DEF CachedValue, NvIInv, NvTypeOK
    <3>3. slot.key \in Keys /\ slot.val \in Vals
      BY DEF NvIInv, NvTypeOK
    <3>4. [k \in {slot.key} |-> slot.val]
            \in [{slot.key} -> Vals \union {None}]
      BY <3>3
    <3>5. CachedValue(p) \in Settings
      BY <3>1, <3>2 DEF Settings
    <3>6. [k \in {slot.key} |-> slot.val] \in Settings
      BY <3>3, <3>4 DEF Settings
    <3>. QED
      BY <3>5, <3>6 DEF NewValue
  <2>3. new \in UNION {[S -> Settings] : S \in SUBSET Parameters}
    BY <2>1, <2>2
  <2>. QED
    BY <2>3 DEF Change, Events, NvIInv, NvTypeOK
<1>2. queue' = queue \/ queue' = Append(queue, Change(new))
  OBVIOUS
<1>3. NvTypeOK'
  <2>1. queue' \in Seq(Events)
    BY <1>1, <1>2, AppendFacts DEF NvIInv, NvTypeOK
  <2>. QED
    BY <2>1 DEF NvIInv, NvTypeOK, connvars, histvars
<1>4. UNCHANGED <<conn, rows, lastval, stale>>
  BY DEF connvars, histvars
<1>5. (OrderInv /\ LastInv /\ RowsInv /\ RowsTrue)'
  <2>1. CASE queue' = queue
    BY <1>4, <2>1, QuietKeeps DEF Quiet, NvIInv
  <2>2. CASE queue' = Append(queue, Change(new))
    <3>1. Change(new).key = "none" /\ Change(new).conn = conn
      BY DEF Change
    <3>. HIDE DEF new
    <3>. QED
      BY <1>1, <1>4, <2>2, <3>1, AppendNoneKeeps
  <2>. QED
    BY <1>2, <2>1, <2>2
<1>. QED
  BY <1>3, <1>5 DEF NvIInv

\* The first event is handled.
LEMMA DeliverKeeps == ASSUME NvIInv, Deliver PROVE NvIInv'
<1>. DEFINE e == queue[1]
<1>. USE ValuesAssumption
<1>1. /\ Len(queue) \in Nat /\ Len(queue) >= 1 /\ Len(queue') = Len(queue) - 1
      /\ queue' \in Seq(Events) /\ Head(queue) = e /\ e \in Events
      /\ \A i \in 1 .. Len(queue) : queue[i] \in Events
      /\ \A i \in 1 .. Len(queue) - 1 : queue'[i] = queue[i + 1]
  BY TailFacts DEF Deliver, NvIInv, NvTypeOK
<1>2. /\ UNCHANGED <<conn, sys, cached, slot, lastval>>
      /\ rows' = IF e.key = "none" THEN rows
                 ELSE [rows EXCEPT ![e.key] = [conn |-> e.conn, val |-> e.val]]
      /\ stale' = IF e.key # "none" /\ e.conn = conn THEN stale \ {e.key}
                  ELSE stale
  BY <1>1 DEF Deliver, connvars
<1>3. /\ e.key \in Keys \union {"none"} /\ e.conn \in Nat
      /\ e.val \in Vals \union {None} /\ conn \in Nat
      /\ rows \in [Keys -> [conn : Nat, val : Vals \union {None}]]
  BY <1>1 DEF Events, NvIInv, NvTypeOK
<1>. HIDE DEF e
<1>4. NvTypeOK'
  <2>1. rows' \in [Keys -> [conn : Nat, val : Vals \union {None}]]
    BY <1>2, <1>3
  <2>. QED
    BY <1>1, <1>2, <2>1 DEF NvIInv, NvTypeOK
<1>5. /\ e.conn <= conn
      /\ \A i \in 1 .. Len(queue') :
           queue'[i].conn \in Nat /\ e.conn <= queue'[i].conn
      /\ e.key # "none" =>
           IF e.conn = conn THEN lastval[e.key] # None ELSE e.key \in stale
  BY <1>1 DEF e, NvIInv, OrderInv, Events
<1>6. OrderInv'
  <2>1. \A i \in 1 .. Len(queue') : queue'[i].conn <= conn
    BY <1>1 DEF NvIInv, OrderInv
  <2>2. \A i, j \in 1 .. Len(queue') : i < j => queue'[i].conn <= queue'[j].conn
    BY <1>1 DEF NvIInv, OrderInv
  <2>3. ASSUME NEW i \in 1 .. Len(queue'), queue'[i].key # "none"
        PROVE  IF queue'[i].conn = conn THEN lastval[queue'[i].key] # None
               ELSE queue'[i].key \in stale'
    <3>1. IF queue'[i].conn = conn THEN lastval[queue'[i].key] # None
          ELSE queue'[i].key \in stale
      BY <1>1, <2>3 DEF NvIInv, OrderInv
    <3>2. queue'[i].conn # conn => stale' = stale
      BY <1>2, <1>3, <1>5, <2>1
    <3>. QED
      BY <3>1, <3>2
  <2>. QED
    BY <1>2, <2>1, <2>2, <2>3 DEF OrderInv
<1>7. LastInv'
  <2>. SUFFICES ASSUME NEW i \in 1 .. Len(queue'),
                       queue'[i].key # "none", lastval[queue'[i].key] # None,
                       \A j \in i + 1 .. Len(queue') : queue'[j].key # queue'[i].key
                PROVE  /\ queue'[i].conn = conn
                       /\ queue'[i].val = lastval[queue'[i].key]
    BY <1>2 DEF LastInv
  <2>1. queue'[i] = queue[i + 1] /\ i + 1 \in 1 .. Len(queue)
    BY <1>1
  <2>2. \A j \in i + 2 .. Len(queue) : queue[j].key # queue[i + 1].key
    <3>. TAKE j \in i + 2 .. Len(queue)
    <3>1. queue'[j - 1] = queue[j] /\ j - 1 \in i + 1 .. Len(queue')
      BY <1>1
    <3>. QED
      BY <2>1, <3>1
  <2>. QED
    BY <2>1, <2>2 DEF NvIInv, LastInv
<1>8. RowsInv'
  BY <1>2, <1>3, <1>5 DEF NvIInv, RowsInv
<1>9. RowsTrue'
  <2>. SUFFICES ASSUME NEW k \in Keys
       PROVE /\ ~Underway(k)' /\ lastval[k] # None =>
                  rows'[k] = [conn |-> conn, val |-> lastval[k]]
             /\ rows'[k] # NoRow /\ rows'[k].conn = conn => lastval[k] # None
             /\ rows'[k] = NoRow \/ rows'[k].conn = conn \/ k \in stale'
    BY <1>2 DEF RowsTrue
  <2>1. CASE e.key # k
    <3>1. rows'[k] = rows[k] /\ (k \in stale => k \in stale')
      BY <1>2, <1>3, <2>1
    <3>2. Underway(k) => Underway(k)'
      <4>. SUFFICES ASSUME NEW i \in 1 .. Len(queue), queue[i].key = k
                    PROVE  Underway(k)'
        BY DEF Underway
      <4>1. i # 1
        BY <2>1 DEF e
      <4>2. i - 1 \in 1 .. Len(queue') /\ queue'[i - 1] = queue[i]
        BY <1>1, <4>1
      <4>. QED
        BY <4>2 DEF Underway
    <3>. QED
      BY <3>1, <3>2 DEF NvIInv, RowsTrue
  <2>2. CASE e.key = k
    <3>1. k # "none" /\ rows'[k] = [conn |-> e.conn, val |-> e.val]
      BY <1>2, <1>3, <2>2
    <3>2. ASSUME ~Underway(k)', lastval[k] # None
          PROVE  e.conn = conn /\ e.val = lastval[k]
      <4>1. \A j \in 2 .. Len(queue) : queue[j].key # k
        <5>. TAKE j \in 2 .. Len(queue)
        <5>1. j - 1 \in 1 .. Len(queue') /\ queue'[j - 1] = queue[j]
          BY <1>1
        <5>. QED
          BY <3>2, <5>1 DEF Underway
      <4>. QED
        BY <1>1, <2>2, <3>1, <3>2, <4>1 DEF e, NvIInv, LastInv
    <3>. QED
      BY <1>2, <1>5, <2>2, <3>1, <3>2
  <2>. QED
    BY <2>1, <2>2
<1>. QED
  BY <1>4, <1>6, <1>7, <1>8, <1>9 DEF NvIInv

\* The other steps leave the queue and the table alone.
LEMMA OthersKeep ==
  ASSUME NvIInv,
         \/ Disconnect \/ Refresh
         \/ \E p \in Parameters : \E x \in [Sources[sys][p] -> Vals] :
              MoveNode(p, x) \/ EnterValue(p, x)
  PROVE  NvIInv'
<1>. USE ValuesAssumption
<1>1. Quiet /\ UNCHANGED <<sys, slot>> /\ cached' \in [Keys -> Vals \union {None}]
  <2>1. CASE Disconnect
    BY <2>1 DEF Disconnect, Quiet
  <2>2. CASE Refresh
    BY <2>2 DEF Refresh, Quiet, connvars, NvIInv, NvTypeOK
  <2>3. ASSUME NEW p \in Parameters, NEW x \in [Sources[sys][p] -> Vals],
               MoveNode(p, x) \/ EnterValue(p, x)
        PROVE  Quiet /\ UNCHANGED <<sys, slot, cached>>
    BY <2>3 DEF MoveNode, EnterValue, Quiet, connvars, histvars
  <2>. QED
    BY <2>1, <2>2, <2>3 DEF NvIInv, NvTypeOK
<1>2. NvTypeOK'
  BY <1>1 DEF Quiet, NvIInv, NvTypeOK
<1>. QED
  BY <1>1, <1>2, QuietKeeps DEF NvIInv

-----------------------------------------------------------------------------
(* What the scene is told.                                                 *)

\* An event that does not change a parameter leaves alone what it will be; one
\* that does tells its value.
LEMMA ToldAppend ==
  ASSUME NEW q \in Seq(Events), NEW e \in Events, NEW sc, NEW us, NEW p, NEW x
  PROVE  /\ p \notin DOMAIN e.new /\ ToldIn(q, sc, us, p, x)
              => ToldIn(Append(q, e), sc, us, p, x)
         /\ p \in DOMAIN e.new /\ e.new[p] = x
              => ToldIn(Append(q, e), sc, us, p, x)
<1>. DEFINE r == Append(q, e)
            n == Len(q) + 1
<1>1. /\ Len(q) \in Nat /\ Len(r) = n
      /\ \A i \in 1 .. Len(q) : r[i] = q[i]
      /\ r[n] = e
  BY AppendFacts
<1>. HIDE DEF r
<1>2. ASSUME p \notin DOMAIN e.new PROVE Changing(r, p) = Changing(q, p)
  BY <1>1, <1>2 DEF Changing
<1>3. \A i \in Changing(q, p) : r[i] = q[i]
  BY <1>1 DEF Changing
<1>4. ASSUME p \in DOMAIN e.new
      PROVE  n \in Changing(r, p) /\ \A i \in Changing(r, p) : i <= n /\ i \in Nat
  BY <1>1, <1>4 DEF Changing
<1>5. ASSUME p \in DOMAIN e.new, NEW i \in Changing(r, p),
             \A j \in Changing(r, p) : j <= i
      PROVE  i = n
  BY <1>1, <1>4, <1>5
<1>6. ASSUME p \notin DOMAIN e.new, ToldIn(q, sc, us, p, x) PROVE ToldIn(r, sc, us, p, x)
  BY <1>2, <1>3, <1>6 DEF ToldIn
<1>7. ASSUME p \in DOMAIN e.new, e.new[p] = x PROVE ToldIn(r, sc, us, p, x)
  <2>1. Changing(r, p) # {}
    BY <1>4, <1>7
  <2>2. \A i \in Changing(r, p) :
          (\A j \in Changing(r, p) : j <= i) => r[i].new[p] = x
    BY <1>1, <1>5, <1>7
  <2>. QED
    BY <2>1, <2>2 DEF ToldIn
<1>. QED
  BY <1>6, <1>7 DEF r

\* Handling the first event does what was told.
LEMMA ToldTail ==
  ASSUME NEW q \in Seq(Events), q # <<>>, NEW sc, NEW us, NEW p \in DOMAIN sc, NEW x,
         ToldIn(q, sc, us, p, x)
  PROVE  ToldIn(Tail(q), Overwrite(sc, q[1].new), us \ DOMAIN q[1].new, p, x)
<1>. DEFINE r == Tail(q)
            new == q[1].new
            sc2 == Overwrite(sc, new)
            us2 == us \ DOMAIN new
<1>1. /\ Len(q) \in Nat /\ Len(q) >= 1 /\ Len(r) = Len(q) - 1
      /\ \A i \in 1 .. Len(q) - 1 : r[i] = q[i + 1]
  BY TailFacts
<1>2. IF p \in DOMAIN new THEN sc2[p] = new[p] ELSE sc2[p] = sc[p]
  BY DEF Overwrite
<1>. SUFFICES ToldIn(r, sc2, us2, p, x)
  OBVIOUS
<1>. HIDE DEF r, new, sc2
<1>3. \A i \in Changing(r, p) : i + 1 \in Changing(q, p) /\ r[i] = q[i + 1] /\ i \in Nat
  BY <1>1 DEF Changing
<1>4. \A j \in Changing(q, p) : j \in Nat /\ (j = 1 \/ j - 1 \in Changing(r, p))
  <2>. TAKE j \in Changing(q, p)
  <2>1. j \in 1 .. Len(q) /\ p \in DOMAIN q[j].new
    BY DEF Changing
  <2>2. j # 1 => j - 1 \in 1 .. Len(r) /\ r[j - 1] = q[j]
    BY <1>1, <2>1
  <2>. QED
    BY <2>1, <2>2 DEF Changing
<1>5. 1 \in Changing(q, p) <=> p \in DOMAIN new
  BY <1>1 DEF Changing, new
<1>6. CASE Changing(r, p) = {}
  <2>1. CASE p \in DOMAIN new
    <3>1. 1 \in Changing(q, p) /\ \A j \in Changing(q, p) : j <= 1
      BY <1>4, <1>5, <1>6, <2>1
    <3>2. new[p] = x
      BY <3>1 DEF ToldIn, new
    <3>3. sc2[p] = x
      BY <1>2, <2>1, <3>2
    <3>. QED
      BY <1>6, <3>3 DEF ToldIn
  <2>2. CASE p \notin DOMAIN new
    <3>1. Changing(q, p) = {}
      BY <1>4, <1>5, <1>6, <2>2
    <3>. QED
      BY <1>2, <1>6, <2>2, <3>1 DEF ToldIn
  <2>. QED
    BY <2>1, <2>2
<1>7. CASE Changing(r, p) # {}
  <2>. SUFFICES ASSUME NEW i \in Changing(r, p), \A j \in Changing(r, p) : j <= i
                PROVE  r[i].new[p] = x
    BY <1>7 DEF ToldIn
  <2>1. i + 1 \in Changing(q, p) /\ r[i] = q[i + 1] /\ i \in Nat
    BY <1>3
  <2>2. \A j \in Changing(q, p) : j <= i + 1
    BY <1>4, <2>1
  <2>. QED
    BY <2>1, <2>2 DEF ToldIn
<1>. QED
  BY <1>6, <1>7

-----------------------------------------------------------------------------
(* The steps, and what the scene is told.                                  *)

LEMMA FollowConnect ==
  ASSUME NvIInv, FollowInv, NEW s \in Systems, ConnectTo(s) PROVE FollowInv'
<1>. USE DEF ConnectTo
<1>1. \A p \in Parameters : ~IsCached(p)'
  <2>1. \A p \in Parameters : Sources[s][p] # {} /\ Sources[s][p] \subseteq Keys
    BY ValuesAssumption
  <2>. QED
    BY <2>1 DEF IsCached
<1>2. SlotInv'
  BY DEF SlotInv
<1>3. SicsInv' /\ NicosInv'
  <2>1. \A p \in Parameters : passed'[p] = Zero(sys', p)
    OBVIOUS
  <2>. QED
    BY <1>1, <2>1 DEF SicsInv, NicosInv, Zero
<1>. QED
  BY <1>2, <1>3 DEF FollowInv

\* A refresh: SICS' values are cleared.
LEMMA FollowRefresh == ASSUME NvIInv, FollowInv, Refresh PROVE FollowInv'
<1>1. CASE sys = "sics"
  <2>1. /\ UNCHANGED <<conn, sys, open, slot, queue, scene, movable>>
        /\ cached' = [k \in Keys |-> None] /\ passed' = [p \in Parameters |-> Zero(sys, p)]
    BY <1>1 DEF Refresh, connvars
  <2>2. \A p \in Parameters : ~IsCached(p)'
    <3>1. \A p \in Parameters : Sources[sys][p] # {} /\ Sources[sys][p] \subseteq Keys
      BY ValuesAssumption DEF NvIInv, NvTypeOK
    <3>. QED
      BY <2>1, <3>1 DEF IsCached
  <2>3. SlotInv'
    <3>1. slot # NoSlot => slot.key \in Keys
      BY DEF NvIInv, NvTypeOK
    <3>. QED
      BY <1>1, <2>1, <3>1 DEF FollowInv, SlotInv
  <2>4. SicsInv' /\ NicosInv'
    BY <1>1, <2>1, <2>2 DEF SicsInv, NicosInv, Zero
  <2>. QED
    BY <2>1, <2>3, <2>4 DEF FollowInv
<1>2. CASE sys # "sics"
  <2>1. UNCHANGED <<conn, sys, open, cached, passed, touched, slot, queue, scene, movable>>
    BY <1>2 DEF Refresh, connvars
  <2>2. SlotInv' /\ SicsInv' /\ NicosInv'
    BY <2>1 DEF FollowInv, SlotInv, SicsInv, NicosInv, Told, IsCached, CachedValue,
                Affected, Zero
  <2>. QED
    BY <2>1, <2>2 DEF FollowInv
<1>. QED
  BY <1>1, <1>2

LEMMA FollowDisconnect == ASSUME NvIInv, FollowInv, Disconnect PROVE FollowInv'
<1>1. slot' = NoSlot /\ ~open' /\ scene' = scene /\ DOMAIN passed' = Parameters
  BY DEF Disconnect
<1>. QED
  BY <1>1 DEF FollowInv, SlotInv, SicsInv, NicosInv

\* A value is stored; what depends on it is now to be passed on.
LEMMA FollowReceive ==
  ASSUME NvIInv, FollowInv, NEW k \in Keys, NEW v \in Vals, Receive(k, v)
  PROVE  FollowInv'
<1>. USE DEF Receive
<1>1. /\ UNCHANGED <<conn, sys, open, passed, scene, movable, touched>>
      /\ slot = NoSlot /\ slot' = [key |-> k, val |-> v] /\ open
      /\ cached' = [cached EXCEPT ![k] = v] /\ cached \in [Keys -> Vals \union {None}]
      /\ queue \in Seq(Events) /\ queue' = Append(queue, Value(k, v))
      /\ sys \in Systems
  BY DEF connvars, NvIInv, NvTypeOK
<1>2. Value(k, v) \in Events /\ Value(k, v).new = Unchanged
  <2>1. Value(k, v).new = Unchanged
    BY DEF Value
  <2>2. conn \in Nat
    BY DEF NvIInv, NvTypeOK
  <2>3. Unchanged \in [{} -> Settings]
    BY DEF Unchanged
  <2>4. Unchanged \in UNION {[S -> Settings] : S \in SUBSET Parameters}
    BY <2>3
  <2>. QED
    BY <2>1, <2>2, <2>4 DEF Value, Events
<1>3. ASSUME NEW p, NEW x, ToldIn(queue, scene, touched, p, x)
      PROVE  ToldIn(queue', scene', touched', p, x)
  <2>1. p \notin DOMAIN Unchanged
    BY DEF Unchanged
  <2>. QED
    BY <1>1, <1>2, <1>3, <2>1, ToldAppend
<1>4. SlotInv'
  BY <1>1 DEF SlotInv
<1>5. ASSUME NEW p \in Parameters, p \notin Affected', IsCached(p)'
      PROVE  /\ p \notin Affected /\ IsCached(p) /\ CachedValue(p)' = CachedValue(p)
  <2>1. k \notin Sources[sys][p] /\ Sources[sys][p] \subseteq Keys
    BY <1>1, <1>5, ValuesAssumption DEF Affected
  <2>2. \A j \in Sources[sys][p] : cached'[j] = cached[j]
    BY <1>1, <2>1
  <2>3. p \notin Affected
    BY <1>1, <2>1, ValuesAssumption DEF Affected, NoSlot
  <2>. QED
    BY <1>1, <1>5, <2>2, <2>3 DEF IsCached, CachedValue
<1>6. SicsInv'
  <2>. SUFFICES ASSUME sys = "sics", NEW p \in Parameters
                PROVE  /\ IsCached(p)' /\ p \notin Affected' => passed[p] = CachedValue(p)'
                       /\ passed[p] # Zero(sys, p) =>
                            ToldIn(queue', scene', touched', p, passed[p])
    BY <1>1 DEF SicsInv, Told, Zero
  <2>1. IsCached(p)' /\ p \notin Affected' => passed[p] = CachedValue(p)'
    BY <1>1, <1>5 DEF FollowInv, SicsInv
  <2>2. passed[p] # Zero(sys, p) => ToldIn(queue, scene, touched, p, passed[p])
    BY <1>1 DEF FollowInv, SicsInv, Told
  <2>. QED
    BY <1>3, <2>1, <2>2
<1>7. NicosInv'
  <2>. SUFFICES ASSUME sys = "nicos", NEW p \in Parameters, IsCached(p)', p \notin Affected'
                PROVE  ToldIn(queue', scene', touched', p, CachedValue(p)')
    BY <1>1 DEF NicosInv, Told
  <2>1. ToldIn(queue, scene, touched, p, CachedValue(p))
    BY <1>1, <1>5 DEF FollowInv, NicosInv, Told
  <2>. QED
    BY <1>3, <1>5, <2>1
<1>. QED
  BY <1>1, <1>4, <1>6, <1>7 DEF FollowInv

\* The value passed on for a parameter is the one that is stored for it, if
\* one is.
LEMMA NewIsCached ==
  ASSUME NvIInv, FollowInv, slot # NoSlot, NEW p \in Parameters, IsCached(p),
         p \in Affected \/ Several(p)
  PROVE  NewValue(p) = CachedValue(p) /\ Available(p)
<1>1. Available(p)
  BY DEF Available
<1>2. CASE Several(p)
  BY <1>1, <1>2 DEF NewValue
<1>3. CASE ~Several(p)
  <2>1. Sources[sys][p] = {slot.key}
    BY <1>3 DEF Affected, Several
  <2>2. cached[slot.key] = slot.val
    BY <2>1 DEF IsCached, FollowInv, SlotInv
  <2>. QED
    BY <1>1, <1>3, <2>1, <2>2 DEF NewValue, CachedValue
<1>. QED
  BY <1>1, <1>2, <1>3

\* The event PassOn posts, if any.
LEMMA ChangeIsEvent ==
  ASSUME NvIInv, slot # NoSlot
  PROVE  /\ Change([p \in PassedOn |-> NewValue(p)]) \in Events
         /\ Change([p \in PassedOn |-> NewValue(p)]).new = [p \in PassedOn |-> NewValue(p)]
         /\ PassedOn \subseteq Parameters
<1>. DEFINE new == [p \in PassedOn |-> NewValue(p)]
<1>1. PassedOn \in SUBSET Parameters
  BY DEF PassedOn, Affected
<1>2. \A p \in PassedOn : NewValue(p) \in Settings
  <2>. SUFFICES ASSUME NEW p \in Parameters PROVE NewValue(p) \in Settings
    BY <1>1
  <2>1. Sources[sys][p] \in SUBSET Keys
    BY ValuesAssumption DEF NvIInv, NvTypeOK
  <2>2. CachedValue(p) \in [Sources[sys][p] -> Vals \union {None}]
    BY <2>1 DEF CachedValue, NvIInv, NvTypeOK
  <2>3. slot.key \in Keys /\ slot.val \in Vals
    BY DEF NvIInv, NvTypeOK
  <2>4. [k \in {slot.key} |-> slot.val] \in [{slot.key} -> Vals \union {None}]
    BY <2>3
  <2>5. CachedValue(p) \in Settings
    BY <2>1, <2>2 DEF Settings
  <2>6. [k \in {slot.key} |-> slot.val] \in Settings
    BY <2>3, <2>4 DEF Settings
  <2>. QED
    BY <2>5, <2>6 DEF NewValue
<1>3. new \in UNION {[S -> Settings] : S \in SUBSET Parameters}
  BY <1>1, <1>2
<1>. QED
  BY <1>1, <1>3 DEF Change, Events, NvIInv, NvTypeOK

\* Parameters are passed on: their values are told to the scene.
LEMMA FollowPassOn == ASSUME NvIInv, FollowInv, PassOn PROVE FollowInv'
<1>. DEFINE new == [p \in PassedOn |-> NewValue(p)]
<1>1. /\ UNCHANGED <<conn, sys, open, cached, scene, movable, touched>>
      /\ slot # NoSlot /\ slot' = NoSlot
      /\ queue' = IF PassedOn = {} THEN queue ELSE Append(queue, Change(new))
      /\ passed' = IF sys = "sics" THEN Overwrite(passed, new) ELSE passed
      /\ queue \in Seq(Events) /\ sys \in Systems
  BY DEF PassOn, connvars, histvars, NvIInv, NvTypeOK
<1>2. Change(new) \in Events /\ Change(new).new = new /\ PassedOn \subseteq Parameters
  BY <1>1, ChangeIsEvent
<1>3. DOMAIN new = PassedOn /\ \A p \in PassedOn : new[p] = NewValue(p)
  OBVIOUS
<1>. HIDE DEF new
<1>4. ASSUME NEW p, NEW x, p \notin PassedOn, ToldIn(queue, scene, touched, p, x)
      PROVE  ToldIn(queue', scene', touched', p, x)
  BY <1>1, <1>2, <1>3, <1>4, ToldAppend
<1>5. ASSUME NEW p \in PassedOn
      PROVE  ToldIn(queue', scene', touched', p, NewValue(p))
  BY <1>1, <1>2, <1>3, ToldAppend
<1>6. /\ DOMAIN passed' = Parameters
      /\ sys = "sics" => \A p \in Parameters :
           passed'[p] = IF p \in PassedOn THEN NewValue(p) ELSE passed[p]
  BY <1>1, <1>2, <1>3 DEF FollowInv, Overwrite
<1>7. /\ \A p \in Parameters : p \notin Affected'
      /\ \A p : IsCached(p)' = IsCached(p) /\ CachedValue(p)' = CachedValue(p)
  BY <1>1, ValuesAssumption DEF Affected, NoSlot, IsCached, CachedValue
<1>8. SlotInv'
  BY <1>1 DEF SlotInv
<1>9. SicsInv'
  <2>. SUFFICES ASSUME sys = "sics", open, NEW p \in Parameters
                PROVE  /\ IsCached(p) => passed'[p] = CachedValue(p)
                       /\ passed'[p] # Zero(sys, p) =>
                            ToldIn(queue', scene', touched', p, passed'[p])
    BY <1>1, <1>7 DEF SicsInv, Told, Zero
  <2>1. CASE p \in PassedOn
    <3>1. passed'[p] = NewValue(p) /\ p \in Affected
      BY <1>6, <2>1 DEF PassedOn
    <3>. QED
      BY <1>1, <1>5, <2>1, <3>1, NewIsCached
  <2>2. CASE p \notin PassedOn
    <3>1. passed'[p] = passed[p]
      BY <1>6, <2>2
    <3>2. passed[p] # Zero(sys, p) => ToldIn(queue, scene, touched, p, passed[p])
      BY DEF FollowInv, SicsInv, Told
    <3>3. ASSUME IsCached(p) PROVE passed[p] = CachedValue(p)
      <4>1. CASE p \in Affected
        <5>1. NewValue(p) = CachedValue(p) /\ Available(p)
          BY <1>1, <3>3, <4>1, NewIsCached
        <5>. QED
          BY <2>2, <4>1, <5>1 DEF PassedOn
      <4>2. CASE p \notin Affected
        BY <3>3, <4>2 DEF FollowInv, SicsInv
      <4>. QED
        BY <4>1, <4>2
    <3>. QED
      BY <1>4, <2>2, <3>1, <3>2, <3>3
  <2>. QED
    BY <2>1, <2>2
<1>10. NicosInv'
  <2>. SUFFICES ASSUME sys = "nicos", open, NEW p \in Parameters, IsCached(p)
                PROVE  ToldIn(queue', scene', touched', p, CachedValue(p))
    BY <1>1, <1>7 DEF NicosInv, Told
  <2>1. CASE p \in PassedOn
    <3>1. p \in Affected \/ Several(p)
      BY <2>1 DEF PassedOn
    <3>. QED
      BY <1>1, <1>5, <2>1, <3>1, NewIsCached
  <2>2. CASE p \notin PassedOn
    <3>1. p \notin Affected
      <4>1. Available(p)
        BY DEF Available
      <4>. QED
        BY <2>2, <4>1 DEF PassedOn
    <3>2. ToldIn(queue, scene, touched, p, CachedValue(p))
      BY <3>1 DEF FollowInv, NicosInv, Told
    <3>. QED
      BY <1>4, <2>2, <3>2
  <2>. QED
    BY <2>1, <2>2
<1>. QED
  BY <1>1, <1>6, <1>8, <1>9, <1>10 DEF FollowInv

\* An event is handled; the scene does what it was told.
LEMMA FollowDeliver == ASSUME NvIInv, FollowInv, Deliver PROVE FollowInv'
<1>. DEFINE new == queue[1].new
<1>1. /\ UNCHANGED <<conn, sys, open, cached, passed, slot, movable>>
      /\ queue # <<>> /\ queue' = Tail(queue) /\ Head(queue) = queue[1]
      /\ scene' = Overwrite(scene, new) /\ touched' = touched \ DOMAIN new
      /\ queue \in Seq(Events) /\ queue[1] \in Events
  BY TailFacts DEF Deliver, connvars, NvIInv, NvTypeOK
<1>2. DOMAIN new \subseteq Parameters
  BY <1>1 DEF Events
<1>3. DOMAIN scene' = Parameters
  BY <1>1, <1>2 DEF FollowInv, Overwrite
<1>4. ASSUME NEW p \in Parameters, NEW x, ToldIn(queue, scene, touched, p, x)
      PROVE  ToldIn(queue', scene', touched', p, x)
  BY <1>1, <1>4, ToldTail DEF FollowInv
<1>5. /\ Affected' = Affected
      /\ \A p : IsCached(p)' = IsCached(p) /\ CachedValue(p)' = CachedValue(p)
  BY <1>1 DEF Affected, IsCached, CachedValue
<1>6. SlotInv'
  BY <1>1 DEF FollowInv, SlotInv
<1>7. SicsInv'
  BY <1>1, <1>4, <1>5 DEF FollowInv, SicsInv, Told, Zero
<1>8. NicosInv'
  BY <1>1, <1>4, <1>5 DEF FollowInv, NicosInv, Told
<1>. QED
  BY <1>1, <1>3, <1>6, <1>7, <1>8 DEF FollowInv

\* The user moves a node, which is possible only without a connection, or
\* enters a value, which is remembered as such with one.
LEMMA FollowUser ==
  ASSUME NvIInv, FollowInv, NEW r \in Parameters, NEW y,
         MoveNode(r, y) \/ EnterValue(r, y)
  PROVE  FollowInv'
<1>1. /\ UNCHANGED <<conn, sys, open, cached, passed, slot, queue, movable>>
      /\ scene' = [scene EXCEPT ![r] = y]
  BY DEF MoveNode, EnterValue, connvars, histvars
<1>2. DOMAIN scene' = Parameters
  BY <1>1 DEF FollowInv
<1>3. open => touched' = touched \union {r}
  BY DEF FollowInv, MoveNode, EnterValue
<1>4. ASSUME open, NEW p, NEW x, ToldIn(queue, scene, touched, p, x)
      PROVE  ToldIn(queue', scene', touched', p, x)
  <2>1. queue' = queue /\ scene' = [scene EXCEPT ![r] = y] /\ touched' = touched \union {r}
    BY <1>1, <1>3, <1>4
  <2>. QED
    BY <1>4, <2>1 DEF ToldIn
<1>5. /\ Affected' = Affected
      /\ \A p : IsCached(p)' = IsCached(p) /\ CachedValue(p)' = CachedValue(p)
  BY <1>1 DEF Affected, IsCached, CachedValue
<1>6. SlotInv' /\ SicsInv' /\ NicosInv'
  BY <1>1, <1>4, <1>5 DEF FollowInv, SlotInv, SicsInv, NicosInv, Told, Zero
<1>. QED
  BY <1>1, <1>2, <1>6 DEF FollowInv

-----------------------------------------------------------------------------
(* The theorems.                                                           *)

\* The inductive invariant holds in every reachable state.
THEOREM NvInvariance == NvSpec => []NvIInv
<1>1. NvIInv /\ [NvNext]_nvvars => NvIInv'
  <2>. SUFFICES ASSUME NvIInv, [NvNext]_nvvars PROVE NvIInv'
    OBVIOUS
  <2>1. CASE UNCHANGED nvvars
    <3>1. Quiet /\ UNCHANGED <<sys, slot, cached>>
      BY <2>1 DEF nvvars, Quiet, connvars, histvars
    <3>2. NvTypeOK'
      BY <3>1 DEF Quiet, NvIInv, NvTypeOK
    <3>. QED
      BY <3>1, <3>2, QuietKeeps DEF NvIInv
  <2>. QED
    BY <2>1, ConnectKeeps, ReceiveKeeps, PassOnKeeps, DeliverKeeps, OthersKeep
       DEF NvNext
<1>. QED
  BY <1>1, NvInitInv, PTL DEF NvSpec

\* The rows of the network cache dialog are the last values of the connection
\* (NetCacheDlg::UpdateValue), whatever is still underway from earlier ones.
THEOREM TableShowsLast == NvSpec => []RowsTrue
<1>1. NvIInv => RowsTrue
  BY DEF NvIInv
<1>. QED
  BY <1>1, NvInvariance, PTL
\* The second invariant holds in every reachable state.
LEMMA Following == NvSpec => []FollowInv
<1>1. NvInit => FollowInv
  BY DEF NvInit, FollowInv, SlotInv, SicsInv, NicosInv
<1>2. NvIInv /\ FollowInv /\ [NvNext]_nvvars => FollowInv'
  <2>. SUFFICES ASSUME NvIInv, FollowInv, [NvNext]_nvvars PROVE FollowInv'
    OBVIOUS
  <2>1. CASE UNCHANGED nvvars
    BY <2>1 DEF nvvars, connvars, histvars, FollowInv, SlotInv, SicsInv, NicosInv,
                Told, IsCached, CachedValue, Affected, Zero
  <2>. QED
    BY <2>1, FollowConnect, FollowDisconnect, FollowRefresh, FollowReceive,
       FollowPassOn, FollowDeliver, FollowUser DEF NvNext
<1>. QED
  BY <1>1, <1>2, NvInvariance, PTL DEF NvSpec

\* While a connection is open and its events are handled, the scenes show what
\* the stored values give, but for what the user has entered since: however the
\* values, refreshes and events of this and of earlier connections interleave
\* (slot_receive, VarsChanged).
THEOREM ScenesFollow == NvSpec => []SceneFollows
<1>1. NvIInv /\ FollowInv => SceneFollows
  <2>. SUFFICES ASSUME NvIInv, FollowInv, open, queue = <<>>, slot = NoSlot,
                       NEW p \in Parameters \ touched, IsCached(p)
                PROVE  \/ scene[p] = CachedValue(p)
                       \/ sys = "sics" /\ CachedValue(p) = Zero(sys, p)
    BY DEF SceneFollows
  <2>1. p \notin Affected /\ sys \in Systems
    BY ValuesAssumption DEF Affected, NoSlot, NvIInv, NvTypeOK
  <2>2. \A x : Told(p, x) => scene[p] = x
    BY DEF Told, ToldIn, Changing
  <2>3. CASE sys = "sics"
    BY <2>1, <2>2, <2>3 DEF FollowInv, SicsInv
  <2>4. CASE sys = "nicos"
    BY <2>1, <2>2, <2>4 DEF FollowInv, NicosInv
  <2>. QED
    BY <2>1, <2>3, <2>4 DEF Systems
<1>. QED
  BY <1>1, NvInvariance, Following, PTL

-----------------------------------------------------------------------------
(* The goto dialog's and the triangle's operations.                        *)

\* What the calculations leave alone in the dialog.
SameFields(h, g) ==
  /\ h.hkl = g.hkl /\ h.ki = g.ki /\ h.kf = g.kf
  /\ h.d = g.d /\ h.pos = g.pos /\ h.crys = g.crys
  /\ h.list = g.list

\* What snapping leaves alone in the triangle.
SameNodes(s, t) ==
  /\ s.d = t.d /\ s.pos = t.pos /\ s.snap = t.snap
  /\ s.q = t.q /\ s.ki = t.ki /\ s.kf = t.kf

LEMMA SampleFacts ==
  ASSUME NEW g \in Gotos
  PROVE  LET h == CalcSample(g)
         IN  /\ h \in Gotos /\ SameFields(h, g) /\ h.params = g.params
             /\ h.mono = g.mono /\ h.ana = g.ana /\ h.monoAnaOk = g.monoAnaOk
             /\ h.sample = [q |-> Hkl(g.hkl, g.crys), ki |-> g.ki, kf |-> g.kf,
                            pos |-> g.pos]
  BY DEF CalcSample, Gotos, SameFields, Hkl, Vectors, TriangleCloses, Fields

LEMMA MonoAnaFacts ==
  ASSUME NEW g \in Gotos
  PROVE  LET h == CalcMonoAna(g)
         IN  /\ h \in Gotos /\ SameFields(h, g) /\ h.params = g.params
             /\ h.mono = g.ki + g.d /\ h.ana = g.kf + g.d
<1>1. g.ki \in Int /\ g.kf \in Int /\ g.d \in Int
  BY DEF Gotos, WaveNumbers, DSpacings
<1>2. g.ki + g.d \in Int /\ g.kf + g.d \in Int
  BY <1>1
<1>. QED
  BY <1>2 DEF CalcMonoAna, Gotos, SameFields, BraggSolvable

\* Both together, as all edits of the fields, the spacings and files do.
LEMMA EditedFacts ==
  ASSUME NEW g \in Gotos
  PROVE  LET h == EditedKiKf(g)
         IN  /\ h \in Gotos /\ SameFields(h, g) /\ h.params = g.params
             /\ Calculated(h)
<1>. DEFINE m == CalcMonoAna(g)
            h == CalcSample(m)
<1>1. /\ m \in Gotos /\ SameFields(m, g) /\ m.params = g.params
      /\ m.mono = g.ki + g.d /\ m.ana = g.kf + g.d
  BY MonoAnaFacts
<1>2. /\ h \in Gotos /\ SameFields(h, m) /\ h.params = m.params
      /\ h.mono = m.mono /\ h.ana = m.ana
      /\ h.sample = [q |-> Hkl(m.hkl, m.crys), ki |-> m.ki, kf |-> m.kf,
                     pos |-> m.pos]
  BY <1>1, SampleFacts
<1>. HIDE DEF m, h
<1>3. SameFields(h, g) /\ Calculated(h) /\ h \in Gotos /\ h.params = g.params
  BY <1>1, <1>2 DEF SameFields, Calculated
<1>. QED
  BY <1>3 DEF EditedKiKf, h, m

LEMMA WithFieldsFacts ==
  ASSUME NEW g \in Gotos, NEW p,
         p.hkl \in Peaks, p.ki \in WaveNumbers, p.kf \in WaveNumbers
  PROVE  LET h == WithFields(g, p)
         IN  /\ h \in Gotos /\ h.hkl = p.hkl /\ h.ki = p.ki /\ h.kf = p.kf
             /\ h.d = g.d /\ h.pos = g.pos /\ h.crys = g.crys
             /\ h.list = g.list /\ h.params = g.params
             /\ h.mono = g.mono /\ h.ana = g.ana
  BY DEF WithFields, Gotos

\* The shown position does not touch the rest.
LEMMA ParamsFacts ==
  ASSUME NEW g \in Gotos, NEW t \in Triangles, NEW c
  PROVE  LET h == WithParams(g, t, c)
         IN  /\ h \in Gotos /\ SameFields(h, g)
             /\ h.mono = g.mono /\ h.ana = g.ana /\ h.sample = g.sample
             /\ h.monoAnaOk = g.monoAnaOk /\ h.sampleOk = g.sampleOk
<1>1. Rlu(t.q, c) \in Peaks \union {Other}
  BY DEF Triangles, Vectors, Rlu
<1>. QED
  BY <1>1 DEF WithParams, Place, Gotos, SameFields, Triangles

\* The peaks near a vector are nodes on peaks.
LEMMA NearFacts ==
  ASSUME NEW v \in Vectors, NEW c \in CrystalData, NEW p \in Near(v, c)
  PROVE  /\ p \in Vectors /\ OnPeak(p, c)
         /\ OnPeak(v, c) => p = v
  BY DEF Near, Vectors, Hkl, OnPeak

LEMMA MovedFacts ==
  ASSUME NEW t \in Triangles, NEW q \in Vectors, NEW ki \in WaveNumbers,
         NEW kf \in WaveNumbers, NEW c \in CrystalData,
         NEW s \in Moved(t, q, ki, kf, c)
  PROVE  /\ s \in Triangles /\ s.d = t.d /\ s.pos = t.pos /\ s.snap = t.snap
         /\ s.q = q /\ s.ki = ki /\ s.kf = kf
         /\ s.snap => OnPeak(s.peak, c)
<1>1. PICK p \in IF t.snap THEN Near(q, c) ELSE {t.peak} :
        s = [t EXCEPT !.q = q, !.ki = ki, !.kf = kf, !.peak = p]
  BY DEF Moved
<1>2. p \in Vectors /\ (t.snap => OnPeak(p, c))
  BY <1>1, NearFacts DEF Triangles
<1>. QED
  BY <1>1, <1>2 DEF Triangles

\* The angles of a position and the same copies give that position.
LEMMA AppliedFacts ==
  ASSUME NEW l \in Crystals, NEW t \in Triangles, NEW g \in Gotos,
         Agree(l, t, g), NEW s \in Applied(t, g, l.crys)
  PROVE  /\ s \in Triangles /\ s.d = t.d /\ s.pos = t.pos /\ s.snap = t.snap
         /\ s.q = Hkl(g.hkl, l.crys) /\ s.ki = g.ki /\ s.kf = g.kf
         /\ s.snap => OnPeak(s.peak, l.crys)
<1>1. g.mono - t.d = g.ki /\ g.ana - t.d = g.kf
  BY DEF Agree, Calculated, Gotos, WaveNumbers, DSpacings
<1>2. /\ g.sample.q = Hkl(g.hkl, l.crys) /\ g.sample.pos = t.pos
      /\ g.sample.ki = g.ki /\ g.sample.kf = g.kf
  BY DEF Agree, Calculated
<1>3. s \in Moved(t, Hkl(g.hkl, l.crys), g.ki, g.kf, l.crys)
  BY <1>1, <1>2 DEF Applied
<1>4. /\ Hkl(g.hkl, l.crys) \in Vectors /\ l.crys \in CrystalData
      /\ g.ki \in WaveNumbers /\ g.kf \in WaveNumbers
  BY DEF Hkl, Vectors, Crystals, Gotos
<1>. QED
  BY <1>3, <1>4, MovedFacts

\* After that the dialog has the fields it had, and agrees.
LEMMA ReachedFacts ==
  ASSUME NEW l \in Crystals, NEW t \in Triangles, NEW g \in Gotos,
         g.d = t.d, g.pos = t.pos, g.crys = l.crys
  PROVE  LET h == Reached(t, g, l.crys)
         IN  h \in Gotos /\ SameFields(h, g) /\ Agree(l, t, h)
<1>. DEFINE e == EditedKiKf(g)
            h == WithParams(e, t, l.crys)
<1>1. e \in Gotos /\ SameFields(e, g) /\ Calculated(e)
  BY EditedFacts
<1>. HIDE DEF e
<1>2. /\ h \in Gotos /\ SameFields(h, e)
      /\ h.mono = e.mono /\ h.ana = e.ana /\ h.sample = e.sample
  BY <1>1, ParamsFacts
<1>. HIDE DEF h
<1>3. h \in Gotos /\ SameFields(h, g) /\ Agree(l, t, h)
  BY <1>1, <1>2 DEF SameFields, Agree, Calculated
<1>4. h = Reached(t, g, l.crys)
  BY DEF h, e, Reached, EditedKiKf
<1>. QED
  BY <1>3, <1>4

\* Edits of the fields keep the agreement.
LEMMA AgreeEdited ==
  ASSUME NEW l, NEW t, NEW g \in Gotos,
         g.d = t.d, g.pos = t.pos, g.crys = l.crys
  PROVE  Agree(l, t, EditedKiKf(g)) /\ EditedKiKf(g) \in Gotos
  BY EditedFacts DEF Agree, SameFields

\* Only the position that is shown changes.
LEMMA AgreeParams ==
  ASSUME NEW l, NEW s, NEW g \in Gotos, Agree(l, s, g),
         NEW t \in Triangles, NEW c
  PROVE  Agree(l, s, WithParams(g, t, c)) /\ WithParams(g, t, c) \in Gotos
  BY ParamsFacts DEF Agree, SameFields, Calculated

\* CalcPeaks: the crystal of the fields is everywhere, if it has a plane.
LEMMA CrystalFacts ==
  ASSUME latt \in Crystals, NEW w \in Windows, NEW t \in Triangles,
         NEW g \in Gotos, Agree(latt, t, g), NEW o \in CalcCrystal(w, t, g)
  PROVE  /\ o.latt \in Crystals /\ o.triangle \in Triangles /\ o.go \in Gotos
         /\ o = [latt |-> o.latt, triangle |-> o.triangle, go |-> o.go]
         /\ Agree(o.latt, o.triangle, o.go)
         /\ SameNodes(o.triangle, t)
         /\ Fields(o.go) = Fields(g) /\ o.go.list = g.list
         /\ w.crys # BadPlane =>
              /\ o.latt = [crys |-> w.crys, atoms |-> w.atoms]
              /\ t.snap => OnPeak(o.triangle.peak, w.crys)
         /\ (t.snap /\ w.crys # BadPlane => OnPeak(t.peak, w.crys)) =>
              o.triangle.peak = t.peak
<1>1. CASE w.crys = BadPlane
  <2>1. o = [latt |-> latt, triangle |-> t, go |-> g]
    BY <1>1 DEF CalcCrystal
  <2>. QED
    BY <1>1, <2>1 DEF SameNodes
<1>2. CASE w.crys # BadPlane
  <2>. DEFINE l == [crys |-> w.crys, atoms |-> w.atoms]
              e == [g EXCEPT !.crys = w.crys]
              h == CalcSample(e)
  <2>1. w.crys \in CrystalData /\ l \in Crystals
    BY <1>2 DEF Windows, Crystals
  <2>2. e \in Gotos
    BY <2>1 DEF Gotos
  <2>3. /\ h \in Gotos /\ SameFields(h, e) /\ h.mono = e.mono /\ h.ana = e.ana
        /\ h.sample = [q |-> Hkl(e.hkl, e.crys), ki |-> e.ki, kf |-> e.kf,
                       pos |-> e.pos]
    BY <2>2, SampleFacts
  <2>4. /\ e.crys = w.crys /\ e.hkl = g.hkl /\ e.ki = g.ki /\ e.kf = g.kf
        /\ e.d = g.d /\ e.pos = g.pos /\ e.list = g.list
        /\ e.mono = g.mono /\ e.ana = g.ana
    BY DEF Gotos
  <2>. HIDE DEF e, h
  <2>5. PICK p \in IF t.snap THEN Near(t.peak, w.crys) ELSE {t.peak} :
          o = [latt |-> l, triangle |-> [t EXCEPT !.peak = p],
               go |-> IF p = t.peak THEN h ELSE WithParams(h, t, w.crys)]
    BY <1>2 DEF CalcCrystal, Outcomes, h, e, l
  <2>6. /\ p \in Vectors /\ (t.snap => OnPeak(p, w.crys))
        /\ (~t.snap \/ OnPeak(t.peak, w.crys)) => p = t.peak
    BY <2>1, <2>5, NearFacts DEF Triangles
  <2>7. /\ o.triangle \in Triangles /\ SameNodes(o.triangle, t)
        /\ o.triangle.peak = p /\ o.latt = l
    BY <2>5, <2>6 DEF Triangles, SameNodes
  <2>8. Agree(l, t, h)
    BY <2>3, <2>4 DEF Agree, Calculated, SameFields, l
  <2>9. /\ Agree(l, o.triangle, o.go) /\ o.go \in Gotos
        /\ SameFields(o.go, h)
    <3>1. CASE p = t.peak
      BY <2>3, <2>5, <2>7, <2>8, <3>1 DEF Agree, SameNodes, SameFields
    <3>2. CASE p # t.peak
      <4>1. o.go = WithParams(h, t, w.crys)
        BY <2>5, <3>2
      <4>2. SameFields(WithParams(h, t, w.crys), h)
        BY <2>3, ParamsFacts
      <4>. QED
        <5>1. Agree(l, o.triangle, h)
          BY <2>7, <2>8 DEF Agree, SameNodes
        <5>. QED
          BY <2>3, <4>1, <4>2, <5>1, AgreeParams
    <3>. QED
      BY <3>1, <3>2
  <2>10. Fields(o.go) = Fields(g) /\ o.go.list = g.list
    BY <2>3, <2>4, <2>9 DEF Fields, Place, SameFields
  <2>11. o = [latt |-> o.latt, triangle |-> o.triangle, go |-> o.go]
    BY <2>5
  <2>. QED
    BY <1>2, <2>1, <2>6, <2>7, <2>9, <2>10, <2>11 DEF l
<1>. QED
  BY <1>1, <1>2

\* The position of the dialog is the one that the instrument has.
AtPosition(l, t, g) ==
  /\ t.ki = g.ki /\ t.kf = g.kf
  /\ Rlu(t.q, l.crys) = g.hkl

\* Apply.
LEMMA ApplyFacts ==
  ASSUME NEW l \in Crystals, NEW t \in Triangles, NEW g \in Gotos,
         Agree(l, t, g), NEW s \in Applied(t, g, l.crys)
  PROVE  LET h == Reached(s, g, l.crys)
         IN  /\ s \in Triangles /\ s.snap = t.snap
             /\ s.snap => OnPeak(s.peak, l.crys)
             /\ h \in Gotos /\ Agree(l, s, h) /\ AtPosition(l, s, h)
<1>. DEFINE h == Reached(s, g, l.crys)
<1>1. /\ s \in Triangles /\ s.d = t.d /\ s.pos = t.pos /\ s.snap = t.snap
      /\ s.q = Hkl(g.hkl, l.crys) /\ s.ki = g.ki /\ s.kf = g.kf
      /\ s.snap => OnPeak(s.peak, l.crys)
  BY AppliedFacts
<1>2. g.d = s.d /\ g.pos = s.pos /\ g.crys = l.crys
  BY <1>1 DEF Agree
<1>3. h \in Gotos /\ SameFields(h, g) /\ Agree(l, s, h)
  BY <1>1, <1>2, ReachedFacts
<1>. HIDE DEF h
<1>4. AtPosition(l, s, h)
  BY <1>1, <1>3 DEF AtPosition, SameFields, Rlu, Hkl
<1>. QED
  BY <1>1, <1>3, <1>4 DEF h

\* GotoPos: it gets there, or the position cannot be reached.
LEMMA GotoFacts ==
  ASSUME NEW p \in Places, NEW o,
         o \in [latt : Crystals, triangle : Triangles, go : Gotos],
         Agree(o.latt, o.triangle, o.go), NEW r \in GotoPos(p, o)
  PROVE  /\ r.latt = o.latt /\ r.triangle \in Triangles /\ r.go \in Gotos
         /\ Agree(r.latt, r.triangle, r.go)
         /\ Appliable(r.go) => AtPosition(r.latt, r.triangle, r.go)
         /\ \/ r.triangle = o.triangle
            \/ r.triangle.snap => OnPeak(r.triangle.peak, o.latt.crys)
         /\ r.triangle.snap = o.triangle.snap
<1>. DEFINE w == WithFields(o.go, p)
            h == EditedKiKf(w)
<1>1. /\ w \in Gotos /\ w.d = o.go.d /\ w.pos = o.go.pos /\ w.crys = o.go.crys
  BY WithFieldsFacts DEF Places
<1>2. h \in Gotos /\ Agree(o.latt, o.triangle, h)
  <2>1. w.d = o.triangle.d /\ w.pos = o.triangle.pos /\ w.crys = o.latt.crys
    BY <1>1 DEF Agree
  <2>. QED
    BY <1>1, <2>1, AgreeEdited
<1>. HIDE DEF w, h
<1>3. CASE Appliable(h)
  <2>1. PICK t \in Applied(o.triangle, h, o.latt.crys) :
          r = [o EXCEPT !.triangle = t, !.go = Reached(t, h, o.latt.crys)]
    BY <1>3 DEF GotoPos, h, w
  <2>2. /\ t \in Triangles /\ t.snap = o.triangle.snap
        /\ t.snap => OnPeak(t.peak, o.latt.crys)
        /\ Reached(t, h, o.latt.crys) \in Gotos
        /\ Agree(o.latt, t, Reached(t, h, o.latt.crys))
        /\ AtPosition(o.latt, t, Reached(t, h, o.latt.crys))
    BY <1>2, ApplyFacts
  <2>3. /\ r.latt = o.latt /\ r.triangle = t
        /\ r.go = Reached(t, h, o.latt.crys)
    BY <2>1
  <2>. QED
    BY <2>2, <2>3
<1>4. CASE ~Appliable(h)
  <2>1. r = [o EXCEPT !.go = h]
    BY <1>4 DEF GotoPos, h, w
  <2>2. r.latt = o.latt /\ r.triangle = o.triangle /\ r.go = h
    BY <2>1
  <2>. QED
    BY <1>2, <1>4, <2>2
<1>. QED
  BY <1>3, <1>4

\* PassDs, PassSense: both copies get the value of the fields.
LEMMA PassFacts ==
  ASSUME NEW w \in Windows, NEW l, NEW t \in Triangles, NEW g \in Gotos,
         Agree(l, t, g), NEW u \in {PassDs(w, t, g), PassSense(w, t, g)}
  PROVE  /\ u[1] \in Triangles /\ u[2] \in Gotos /\ Agree(l, u[1], u[2])
         /\ u[1].q = t.q /\ u[1].ki = t.ki /\ u[1].kf = t.kf
         /\ u[1].snap = t.snap /\ u[1].peak = t.peak
         /\ Fields(u[2]) = Fields(g) /\ u[2].list = g.list
<1>1. CASE u = PassDs(w, t, g)
  <2>. DEFINE e == [g EXCEPT !.d = w.d]
              s == [t EXCEPT !.d = w.d]
  <2>1. /\ e \in Gotos /\ e.d = w.d /\ e.pos = g.pos /\ e.crys = g.crys
        /\ Fields(e) = Fields(g) /\ e.list = g.list
    BY DEF Gotos, Windows, Fields, Place
  <2>2. /\ s \in Triangles /\ s.d = w.d /\ s.pos = t.pos /\ s.q = t.q
        /\ s.ki = t.ki /\ s.kf = t.kf /\ s.snap = t.snap /\ s.peak = t.peak
    BY DEF Triangles, Windows
  <2>3. u[1] = s /\ u[2] = EditedKiKf(e)
    BY <1>1 DEF PassDs, EditedKiKf
  <2>. HIDE DEF e, s
  <2>4. Agree(l, s, EditedKiKf(e)) /\ EditedKiKf(e) \in Gotos
    BY <2>1, <2>2, AgreeEdited DEF Agree
  <2>5. SameFields(EditedKiKf(e), e)
    BY <2>1, EditedFacts
  <2>. QED
    BY <2>1, <2>2, <2>3, <2>4, <2>5 DEF SameFields, Fields, Place
<1>2. CASE u = PassSense(w, t, g)
  <2>. DEFINE e == [g EXCEPT !.pos = w.pos]
              s == [t EXCEPT !.pos = w.pos]
              h == CalcSample(e)
  <2>1. /\ e \in Gotos /\ e.pos = w.pos /\ e.d = g.d /\ e.crys = g.crys
        /\ e.ki = g.ki /\ e.kf = g.kf /\ e.hkl = g.hkl
        /\ e.mono = g.mono /\ e.ana = g.ana /\ e.list = g.list
    BY DEF Gotos, Windows
  <2>2. /\ s \in Triangles /\ s.pos = w.pos /\ s.d = t.d /\ s.q = t.q
        /\ s.ki = t.ki /\ s.kf = t.kf /\ s.snap = t.snap /\ s.peak = t.peak
    BY DEF Triangles, Windows
  <2>3. u[1] = s /\ u[2] = h
    BY <1>2 DEF PassSense
  <2>. HIDE DEF e, s
  <2>4. /\ h \in Gotos /\ SameFields(h, e) /\ h.mono = e.mono /\ h.ana = e.ana
        /\ h.sample = [q |-> Hkl(e.hkl, e.crys), ki |-> e.ki, kf |-> e.kf,
                       pos |-> e.pos]
    BY <2>1, SampleFacts
  <2>. HIDE DEF h
  <2>5. Agree(l, s, h)
    BY <2>1, <2>2, <2>4 DEF Agree, Calculated, SameFields
  <2>6. Fields(h) = Fields(g) /\ h.list = g.list
    BY <2>1, <2>4 DEF Fields, Place, SameFields
  <2>. QED
    BY <2>2, <2>3, <2>4, <2>5, <2>6
<1>. QED
  BY <1>1, <1>2

-----------------------------------------------------------------------------
(* The steps.                                                              *)

\* The part of the invariant that is about the present session.
Present ==
  /\ SessionTypeOK /\ Agree(latt, triangle, go) /\ Snapped /\ CrystalCurrent

\* An event after which nothing is claimed of a position or a file.
LEMMA QuietEvent ==
  ASSUME SavedInv, NEW n, Happens(Named(n)), n # "load",
         UNCHANGED <<disk, saved>>
  PROVE  /\ SavedInv' /\ RoundTrip'
         /\ n \notin {"apply", "goto"} => GotoReaches'
  BY DEF SavedInv, RoundTrip, GotoReaches, Happens, Named

LEMMA CountKept ==
  ASSUME count \in Nat, NEW e, Happens(e)
  PROVE  count' \in Nat
  BY DEF Happens

\* The fields of the window: spacings and sense go to both copies.
LEMMA EnterSpacingStep ==
  ASSUME SessionIInv, NEW d \in DSpacings, EnterSpacing(d)
  PROVE  SessionIInv'
<1>1. Happens(Named("edit")) /\ UNCHANGED <<latt, tables, resopars, files>>
  BY DEF EnterSpacing
<1>2. window' \in Windows /\ window'.crys = window.crys
      /\ window'.atoms = window.atoms
  BY DEF SessionIInv, SessionTypeOK, EnterSpacing, Windows
<1>3. /\ triangle' = PassDs(window', triangle, go)[1]
      /\ go' = PassDs(window', triangle, go)[2]
  BY DEF EnterSpacing
<1>4. /\ triangle' \in Triangles /\ go' \in Gotos
      /\ Agree(latt, triangle', go') /\ triangle'.snap = triangle.snap
      /\ triangle'.peak = triangle.peak
  BY <1>2, <1>3, PassFacts DEF SessionIInv, SessionTypeOK
<1>5. Present'
  BY <1>1, <1>2, <1>4, CountKept
  DEF Present, SessionIInv, SessionTypeOK, Snapped, CrystalCurrent, files,
      Agree, Calculated
<1>6. SavedInv' /\ RoundTrip' /\ GotoReaches'
  BY <1>1, QuietEvent DEF SessionIInv, files
<1>. QED
  BY <1>5, <1>6 DEF Present, SessionIInv

LEMMA ToggleSenseStep == ASSUME SessionIInv, ToggleSense PROVE SessionIInv'
<1>1. Happens(Named("edit")) /\ UNCHANGED <<latt, tables, resopars, files>>
  BY DEF ToggleSense
<1>2. window' \in Windows /\ window'.crys = window.crys
      /\ window'.atoms = window.atoms
  BY DEF SessionIInv, SessionTypeOK, ToggleSense, Windows
<1>. DEFINE u == PassSense(window', triangle, go)
<1>3. triangle' = u[1] /\ go' = WithParams(u[2], u[1], latt.crys)
  BY DEF ToggleSense
<1>4. /\ u[1] \in Triangles /\ u[2] \in Gotos /\ Agree(latt, u[1], u[2])
      /\ u[1].snap = triangle.snap /\ u[1].peak = triangle.peak
  BY <1>2, PassFacts DEF SessionIInv, SessionTypeOK
<1>5. go' \in Gotos /\ Agree(latt, triangle', go')
  BY <1>3, <1>4, AgreeParams
<1>6. Present'
  BY <1>1, <1>2, <1>3, <1>4, <1>5, CountKept
  DEF Present, SessionIInv, SessionTypeOK, Snapped, CrystalCurrent, files,
      Agree, Calculated
<1>7. SavedInv' /\ RoundTrip' /\ GotoReaches'
  BY <1>1, QuietEvent DEF SessionIInv, files
<1>. QED
  BY <1>6, <1>7 DEF Present, SessionIInv

\* The peaks are calculated for the fields w.
LEMMA BecomeCrystal ==
  ASSUME SessionIInv, window' \in Windows,
         \E o \in CalcCrystal(window', triangle, go) : Become(o)
  PROVE  /\ latt' \in Crystals /\ triangle' \in Triangles /\ go' \in Gotos
         /\ Agree(latt', triangle', go') /\ Snapped' /\ CrystalCurrent'
<1>1. PICK o \in CalcCrystal(window', triangle, go) : Become(o)
  OBVIOUS
<1>2. latt' = o.latt /\ triangle' = o.triangle /\ go' = o.go
  BY <1>1 DEF Become
<1>3. /\ o.latt \in Crystals /\ o.triangle \in Triangles /\ o.go \in Gotos
      /\ Agree(o.latt, o.triangle, o.go)
      /\ o.triangle.snap = triangle.snap
      /\ window'.crys # BadPlane =>
           /\ o.latt = [crys |-> window'.crys, atoms |-> window'.atoms]
           /\ triangle.snap => OnPeak(o.triangle.peak, window'.crys)
  BY CrystalFacts DEF SessionIInv, SessionTypeOK, SameNodes
<1>. QED
  BY <1>2, <1>3 DEF Snapped, CrystalCurrent

LEMMA EnterCrystalStep ==
  ASSUME SessionIInv, NEW c \in CrystalData \union {BadPlane}, EnterCrystal(c)
  PROVE  SessionIInv'
<1>1. Happens(Named("edit")) /\ UNCHANGED <<tables, resopars, files>>
  BY DEF EnterCrystal
<1>2. window' \in Windows
  BY DEF SessionIInv, SessionTypeOK, EnterCrystal, Windows
<1>3. /\ latt' \in Crystals /\ triangle' \in Triangles /\ go' \in Gotos
      /\ Agree(latt', triangle', go') /\ Snapped' /\ CrystalCurrent'
  BY <1>2, BecomeCrystal DEF EnterCrystal
<1>4. SessionTypeOK'
  BY <1>1, <1>2, <1>3, CountKept DEF SessionIInv, SessionTypeOK, files
<1>5. SavedInv' /\ RoundTrip' /\ GotoReaches'
  BY <1>1, QuietEvent DEF SessionIInv, files
<1>. QED
  BY <1>3, <1>4, <1>5 DEF SessionIInv, Agree, Calculated

LEMMA ApplyAtomsStep ==
  ASSUME SessionIInv, NEW x \in Lists, ApplyAtoms(x)
  PROVE  SessionIInv'
<1>1. Happens(Named("edit")) /\ UNCHANGED <<resopars, files>>
  BY DEF ApplyAtoms
<1>2. /\ window' \in Windows
      /\ tables' \in [atoms : Lists \union {Closed}, dead : Lists \union {Closed}]
  BY DEF SessionIInv, SessionTypeOK, ApplyAtoms, Windows
<1>3. /\ latt' \in Crystals /\ triangle' \in Triangles /\ go' \in Gotos
      /\ Agree(latt', triangle', go') /\ Snapped' /\ CrystalCurrent'
  BY <1>2, BecomeCrystal DEF ApplyAtoms
<1>4. SessionTypeOK'
  BY <1>1, <1>2, <1>3, CountKept DEF SessionIInv, SessionTypeOK, files
<1>5. SavedInv' /\ RoundTrip' /\ GotoReaches'
  BY <1>1, QuietEvent DEF SessionIInv, files
<1>. QED
  BY <1>3, <1>4, <1>5 DEF SessionIInv, Agree, Calculated

LEMMA ImportCIFStep ==
  ASSUME SessionIInv, NEW c \in CrystalData, NEW x \in Lists, ImportCIF(c, x)
  PROVE  SessionIInv'
<1>1. /\ Happens(Named("import")) /\ UNCHANGED <<resopars, disk, saved>>
      /\ curfile' = NoFile
  BY DEF ImportCIF
<1>2. /\ window' \in Windows
      /\ tables' \in [atoms : Lists \union {Closed}, dead : Lists \union {Closed}]
  BY DEF SessionIInv, SessionTypeOK, ImportCIF, Windows
<1>3. /\ latt' \in Crystals /\ triangle' \in Triangles /\ go' \in Gotos
      /\ Agree(latt', triangle', go') /\ Snapped' /\ CrystalCurrent'
  BY <1>2, BecomeCrystal DEF ImportCIF
<1>4. SessionTypeOK'
  BY <1>1, <1>2, <1>3, CountKept DEF SessionIInv, SessionTypeOK
<1>5. SavedInv' /\ RoundTrip' /\ GotoReaches'
  BY <1>1, QuietEvent DEF SessionIInv
<1>. QED
  BY <1>3, <1>4, <1>5 DEF SessionIInv, Agree, Calculated

\* The triangle changes, and the dialog shows it.
LEMMA TriangleStep ==
  ASSUME SessionIInv, NEW n, Happens(Named(n)),
         n \notin {"load", "apply", "goto"},
         UNCHANGED <<window, latt, tables, resopars, files>>,
         triangle' \in Triangles, triangle'.d = triangle.d,
         triangle'.pos = triangle.pos,
         triangle'.snap => OnPeak(triangle'.peak, latt.crys) \/
                           window.crys = BadPlane,
         NEW t \in Triangles, go' \in {go, WithParams(go, t, latt.crys)}
  PROVE  SessionIInv'
<1>1. go' \in Gotos /\ Agree(latt, triangle', go')
  <2>1. Agree(latt, triangle', go) /\ go \in Gotos
    BY DEF SessionIInv, SessionTypeOK, Agree
  <2>. QED
    BY <2>1, AgreeParams
<1>2. Snapped' /\ CrystalCurrent'
  BY DEF SessionIInv, Snapped, CrystalCurrent
<1>3. SessionTypeOK'
  BY <1>1, CountKept DEF SessionIInv, SessionTypeOK, files
<1>4. SavedInv' /\ RoundTrip' /\ GotoReaches'
  BY QuietEvent DEF SessionIInv, files
<1>. QED
  BY <1>1, <1>2, <1>3, <1>4 DEF SessionIInv, Agree, Calculated

LEMMA DragStep ==
  ASSUME SessionIInv, NEW p \in Positions, Drag(p)
  PROVE  SessionIInv'
<1>1. latt.crys \in CrystalData /\ triangle \in Triangles
  BY DEF SessionIInv, SessionTypeOK, Crystals
<1>2. /\ Hkl(p.hkl, latt.crys) \in Vectors
      /\ p.ki \in WaveNumbers /\ p.kf \in WaveNumbers
  BY <1>1 DEF Positions, Hkl, Vectors
<1>3. /\ triangle' \in Moved(triangle, Hkl(p.hkl, latt.crys), p.ki, p.kf,
                             latt.crys)
      /\ go' = WithParams(go, triangle', latt.crys)
      /\ Happens(Named("drag"))
      /\ UNCHANGED <<window, latt, tables, resopars, files>>
  BY DEF Drag
<1>4. /\ triangle' \in Triangles /\ triangle'.d = triangle.d
      /\ triangle'.pos = triangle.pos
      /\ triangle'.snap => OnPeak(triangle'.peak, latt.crys)
  BY <1>1, <1>2, <1>3, MovedFacts
<1>. QED
  BY <1>3, <1>4, TriangleStep

LEMMA DragPeakStep ==
  ASSUME SessionIInv, NEW h \in Peaks, DragPeak(h)
  PROVE  SessionIInv'
<1>1. latt.crys \in CrystalData /\ triangle \in Triangles
  BY DEF SessionIInv, SessionTypeOK, Crystals
<1>2. /\ triangle' = [triangle EXCEPT !.peak = Hkl(h, latt.crys)]
      /\ go' = WithParams(go, triangle, latt.crys)
      /\ Happens(Named("drag"))
      /\ UNCHANGED <<window, latt, tables, resopars, files>>
  BY DEF DragPeak
<1>3. /\ triangle' \in Triangles /\ triangle'.d = triangle.d
      /\ triangle'.pos = triangle.pos /\ OnPeak(triangle'.peak, latt.crys)
  BY <1>1, <1>2 DEF Triangles, Hkl, Vectors, OnPeak
<1>. QED
  BY <1>1, <1>2, <1>3, TriangleStep

LEMMA SetSnapqStep == ASSUME SessionIInv, SetSnapq PROVE SessionIInv'
<1>1. latt.crys \in CrystalData /\ triangle \in Triangles /\ triangle.q \in Vectors
  BY DEF SessionIInv, SessionTypeOK, Crystals, Triangles
<1>2. /\ Happens(Named("edit"))
      /\ UNCHANGED <<window, latt, tables, resopars, files>>
      /\ go' \in {go, WithParams(go, triangle, latt.crys)}
  BY DEF SetSnapq
<1>3. PICK p \in IF triangle.snap THEN {triangle.peak}
                ELSE Near(triangle.q, latt.crys) :
        triangle' = [triangle EXCEPT !.snap = ~@, !.peak = p]
  BY DEF SetSnapq
<1>4. p \in Vectors /\ (~triangle.snap => OnPeak(p, latt.crys))
  BY <1>1, <1>3, NearFacts DEF Triangles
<1>5. /\ triangle' \in Triangles /\ triangle'.d = triangle.d
      /\ triangle'.pos = triangle.pos
      /\ triangle'.snap => OnPeak(triangle'.peak, latt.crys)
  BY <1>1, <1>3, <1>4 DEF Triangles
<1>. QED
  BY <1>1, <1>2, <1>5, TriangleStep

\* The dialogs' tables and settings are not part of the scenes.
LEMMA DialogsStep ==
  ASSUME SessionIInv,
         \/ ShowTables
         \/ \E x \in Lists : SetReso(x) \/ ApplyDeadAngles(x)
  PROVE  SessionIInv'
<1>1. /\ \E n \in {"show", "edit"} : Happens(Named(n))
      /\ UNCHANGED <<triangle, latt, go, files>>
  BY DEF ShowTables, SetReso, ApplyDeadAngles
<1>2. /\ window' \in Windows /\ window'.crys = window.crys
      /\ window'.atoms = window.atoms
      /\ tables' \in [atoms : Lists \union {Closed}, dead : Lists \union {Closed}]
      /\ resopars' \in Lists \union {Closed}
  BY DEF SessionIInv, SessionTypeOK, ShowTables, SetReso, ApplyDeadAngles, Windows
<1>3. SessionTypeOK' /\ Agree(latt, triangle, go)'
  BY <1>1, <1>2, CountKept
  DEF SessionIInv, SessionTypeOK, files, Agree, Calculated
<1>4. Snapped' /\ CrystalCurrent'
  BY <1>1, <1>2 DEF SessionIInv, Snapped, CrystalCurrent
<1>5. SavedInv' /\ RoundTrip' /\ GotoReaches'
  BY <1>1, QuietEvent DEF SessionIInv, files
<1>. QED
  BY <1>3, <1>4, <1>5 DEF SessionIInv

\* The resolution dialog is opened: the spacings are passed on.
LEMMA ShowResoStep == ASSUME SessionIInv, ShowReso PROVE SessionIInv'
<1>1. Happens(Named("show")) /\ UNCHANGED <<window, latt, tables, files>>
  BY DEF ShowReso
<1>. DEFINE u == PassDs(window, triangle, go)
<1>2. triangle' = u[1] /\ go' = WithParams(u[2], triangle, latt.crys)
      /\ resopars' \in Lists
  BY SessionAssumption DEF ShowReso, PassDs
<1>3. /\ u[1] \in Triangles /\ u[2] \in Gotos /\ Agree(latt, u[1], u[2])
      /\ u[1].snap = triangle.snap /\ u[1].peak = triangle.peak
  BY PassFacts DEF SessionIInv, SessionTypeOK
<1>4. go' \in Gotos /\ Agree(latt, triangle', go')
  <2>1. /\ WithParams(u[2], triangle, latt.crys) \in Gotos
        /\ SameFields(WithParams(u[2], triangle, latt.crys), u[2])
        /\ WithParams(u[2], triangle, latt.crys).mono = u[2].mono
        /\ WithParams(u[2], triangle, latt.crys).ana = u[2].ana
        /\ WithParams(u[2], triangle, latt.crys).sample = u[2].sample
    BY <1>3, ParamsFacts DEF SessionIInv, SessionTypeOK
  <2>. QED
    BY <1>2, <1>3, <2>1 DEF Agree, SameFields, Calculated
<1>5. SessionTypeOK'
  BY <1>1, <1>2, <1>3, <1>4, CountKept DEF SessionIInv, SessionTypeOK, files
<1>6. Snapped' /\ CrystalCurrent'
  BY <1>1, <1>2, <1>3 DEF SessionIInv, Snapped, CrystalCurrent
<1>7. SavedInv' /\ RoundTrip' /\ GotoReaches'
  BY <1>1, QuietEvent DEF SessionIInv, files
<1>. QED
  BY <1>1, <1>4, <1>5, <1>6, <1>7 DEF SessionIInv, Agree, Calculated

-----------------------------------------------------------------------------
(* The goto dialog.                                                        *)

\* Only the dialog changes, and agrees.
LEMMA GoStep ==
  ASSUME SessionIInv, NEW n, Happens(Named(n)),
         n \notin {"load", "apply", "goto"},
         UNCHANGED <<window, triangle, latt, tables, resopars, files>>,
         go' \in Gotos, Agree(latt, triangle, go')
  PROVE  SessionIInv'
<1>1. SessionTypeOK'
  BY CountKept DEF SessionIInv, SessionTypeOK, files
<1>2. Snapped' /\ CrystalCurrent'
  BY DEF SessionIInv, Snapped, CrystalCurrent
<1>3. SavedInv' /\ RoundTrip' /\ GotoReaches'
  BY QuietEvent DEF SessionIInv, files
<1>. QED
  BY <1>1, <1>2, <1>3 DEF SessionIInv, Agree, Calculated

\* The fields of a dialog that agrees are set, and the angles calculated.
LEMMA FieldsSet ==
  ASSUME SessionIInv, NEW p,
         p.hkl \in Peaks, p.ki \in WaveNumbers, p.kf \in WaveNumbers
  PROVE  /\ EditedKiKf(WithFields(go, p)) \in Gotos
         /\ Agree(latt, triangle, EditedKiKf(WithFields(go, p)))
<1>1. go \in Gotos /\ go.d = triangle.d /\ go.pos = triangle.pos
      /\ go.crys = latt.crys
  BY DEF SessionIInv, SessionTypeOK, Agree
<1>. DEFINE w == WithFields(go, p)
<1>2. /\ w \in Gotos /\ w.d = triangle.d /\ w.pos = triangle.pos
      /\ w.crys = latt.crys
  BY <1>1, WithFieldsFacts
<1>. HIDE DEF w
<1>3. EditedKiKf(w) \in Gotos /\ Agree(latt, triangle, EditedKiKf(w))
  BY <1>2, AgreeEdited
<1>. QED
  BY <1>3 DEF w

LEMMA EditPositionStep ==
  ASSUME SessionIInv, NEW p \in Positions, EditPosition(p)
  PROVE  SessionIInv'
<1>1. /\ Happens(Named("field"))
      /\ UNCHANGED <<window, triangle, latt, tables, resopars, files>>
  BY DEF EditPosition
<1>2. p.hkl \in Peaks /\ p.ki \in WaveNumbers /\ p.kf \in WaveNumbers
  BY DEF Positions
<1>3. go' \in Gotos /\ Agree(latt, triangle, go')
  <2>1. CASE p.ki = go.ki /\ p.kf = go.kf
    <3>. DEFINE w == WithFields(go, p)
                h == CalcSample(w)
    <3>1. go' = h
      BY <2>1 DEF EditPosition
    <3>2. /\ w \in Gotos /\ w.hkl = p.hkl /\ w.ki = go.ki /\ w.kf = go.kf
          /\ w.d = go.d /\ w.pos = go.pos /\ w.crys = go.crys
          /\ w.mono = go.mono /\ w.ana = go.ana
      BY <1>2, <2>1, WithFieldsFacts DEF SessionIInv, SessionTypeOK
    <3>. HIDE DEF w
    <3>3. /\ h \in Gotos /\ SameFields(h, w) /\ h.mono = w.mono /\ h.ana = w.ana
          /\ h.sample = [q |-> Hkl(w.hkl, w.crys), ki |-> w.ki, kf |-> w.kf,
                         pos |-> w.pos]
      BY <3>2, SampleFacts
    <3>. QED
      BY <3>1, <3>2, <3>3 DEF SessionIInv, Agree, Calculated, SameFields
  <2>2. CASE ~(p.ki = go.ki /\ p.kf = go.kf)
    BY <1>2, <2>2, FieldsSet DEF EditPosition
  <2>. QED
    BY <2>1, <2>2
<1>. QED
  BY <1>1, <1>3, GoStep

LEMMA EditedEStep ==
  ASSUME SessionIInv, NEW e \in {-1, 1}, NEW fixedKi \in BOOLEAN,
         EditedE(e, fixedKi)
  PROVE  SessionIInv'
<1>1. /\ Happens(Named("field"))
      /\ UNCHANGED <<window, triangle, latt, tables, resopars, files>>
      /\ go'.ki \in WaveNumbers /\ go'.kf \in WaveNumbers
  BY DEF EditedE
<1>. DEFINE g == IF fixedKi THEN [go EXCEPT !.kf = @ - e]
                 ELSE [go EXCEPT !.ki = go.kf + e]
<1>2. go' = EditedKiKf(g)
  BY DEF EditedE
<1>3. go'.ki = g.ki /\ go'.kf = g.kf
  BY <1>2 DEF EditedKiKf, CalcSample, CalcMonoAna, SessionIInv, SessionTypeOK,
              Gotos
<1>4. /\ g \in Gotos /\ g.d = go.d /\ g.pos = go.pos /\ g.crys = go.crys
  <2>1. g.ki \in WaveNumbers /\ g.kf \in WaveNumbers
    BY <1>1, <1>3
  <2>. QED
    BY <2>1 DEF SessionIInv, SessionTypeOK, Gotos
<1>. HIDE DEF g
<1>5. go' \in Gotos /\ Agree(latt, triangle, go')
  BY <1>2, <1>4, AgreeEdited DEF SessionIInv, Agree
<1>. QED
  BY <1>1, <1>5, GoStep

\* The angles are those of a position that can be reached.
LEMMA EditedAnglesStep ==
  ASSUME SessionIInv, NEW p \in Positions, EditedAngles(p)
  PROVE  SessionIInv'
<1>1. /\ Happens(Named("field"))
      /\ UNCHANGED <<window, triangle, latt, tables, resopars, files>>
  BY DEF EditedAngles
<1>. DEFINE h == EditedKiKf(WithFields(go, p))
<1>2. go' = [h EXCEPT !.monoAnaOk = TRUE, !.sampleOk = TRUE]
  BY DEF EditedAngles
<1>3. h \in Gotos /\ Agree(latt, triangle, h)
  BY FieldsSet DEF Positions
<1>. HIDE DEF h
<1>4. go' \in Gotos /\ Agree(latt, triangle, go')
  BY <1>2, <1>3 DEF Gotos, Agree, Calculated
<1>. QED
  BY <1>1, <1>4, GoStep

LEMMA GetCurPosStep == ASSUME SessionIInv, GetCurPos PROVE SessionIInv'
<1>1. /\ Happens(Named("field")) /\ go.params.hkl \in Peaks
      /\ UNCHANGED <<window, triangle, latt, tables, resopars, files>>
      /\ go' = EditedKiKf(WithFields(go, go.params))
  BY DEF GetCurPos
<1>2. go.params.ki \in WaveNumbers /\ go.params.kf \in WaveNumbers
  BY DEF SessionIInv, SessionTypeOK, Gotos
<1>. QED
  BY <1>1, <1>2, FieldsSet, GoStep

LEMMA ListElement ==
  ASSUME SessionIInv, NEW i \in 1 .. Len(go.list)
  PROVE  go.list[i] \in Places
  BY DEF SessionIInv, SessionTypeOK, Gotos

LEMMA SelectStep ==
  ASSUME SessionIInv, NEW i \in 1 .. 2, Select(i)
  PROVE  SessionIInv'
<1>1. /\ Happens(Named("field")) /\ i \in 1 .. Len(go.list)
      /\ UNCHANGED <<window, triangle, latt, tables, resopars, files>>
      /\ go' = EditedKiKf(WithFields(go, go.list[i]))
  BY DEF Select
<1>2. go.list[i] \in Places
  BY <1>1, ListElement
<1>. QED
  BY <1>1, <1>2, FieldsSet, GoStep DEF Places

\* Another list does not touch the fields.
LEMMA ListFacts ==
  ASSUME NEW l, NEW t, NEW g \in Gotos, Agree(l, t, g), NEW x \in Seq(Places)
  PROVE  [g EXCEPT !.list = x] \in Gotos /\ Agree(l, t, [g EXCEPT !.list = x])
  BY DEF Gotos, Agree, Calculated

LEMMA ListStep ==
  ASSUME SessionIInv, AddPosToList \/ RemPosFromList
  PROVE  SessionIInv'
<1>1. go.list \in Seq(Places) /\ Fields(go) \in Places
  BY DEF SessionIInv, SessionTypeOK, Gotos, Fields, Place, Places
<1>2. PICK x \in Seq(Places) : go' = [go EXCEPT !.list = x]
  <2>1. CASE AddPosToList
    <3>1. Append(go.list, Fields(go)) \in Seq(Places)
      BY <1>1
    <3>2. go' = [go EXCEPT !.list = Append(go.list, Fields(go))]
      BY <2>1 DEF AddPosToList
    <3>. QED
      BY <3>1, <3>2
  <2>2. CASE RemPosFromList
    <3>1. SubSeq(go.list, 1, Len(go.list) - 1) \in Seq(Places)
      BY <1>1, <2>2 DEF RemPosFromList
    <3>. QED
      BY <2>2, <3>1 DEF RemPosFromList
  <2>. QED
    BY <2>1, <2>2
<1>3. /\ Happens(Named("list"))
      /\ UNCHANGED <<window, triangle, latt, tables, resopars, files>>
  BY DEF AddPosToList, RemPosFromList
<1>4. go' \in Gotos /\ Agree(latt, triangle, go')
  BY <1>2, ListFacts DEF SessionIInv, SessionTypeOK
<1>. QED
  BY <1>3, <1>4, GoStep

\* The instrument goes to the position of the dialog.
LEMMA ApplyStep == ASSUME SessionIInv, Apply PROVE SessionIInv'
<1>1. /\ Happens(Named("apply"))
      /\ UNCHANGED <<window, latt, tables, resopars, files>>
  BY DEF Apply
<1>2. PICK t \in Applied(triangle, go, latt.crys) :
        triangle' = t /\ go' = Reached(t, go, latt.crys)
  BY DEF Apply
<1>3. /\ triangle' \in Triangles
      /\ triangle'.snap => OnPeak(triangle'.peak, latt.crys)
      /\ go' \in Gotos /\ Agree(latt, triangle', go')
      /\ AtPosition(latt, triangle', go')
  BY <1>2, ApplyFacts DEF SessionIInv, SessionTypeOK
<1>4. SessionTypeOK' /\ Agree(latt, triangle, go)'
  BY <1>1, <1>3, CountKept DEF SessionIInv, SessionTypeOK, files, Agree, Calculated
<1>5. Snapped' /\ CrystalCurrent' /\ GotoReaches'
  BY <1>1, <1>3 DEF SessionIInv, Snapped, CrystalCurrent, GotoReaches, AtPosition
<1>6. SavedInv' /\ RoundTrip'
  BY <1>1, QuietEvent DEF SessionIInv, files
<1>. QED
  BY <1>4, <1>5, <1>6 DEF SessionIInv

LEMMA DoubleClickStep ==
  ASSUME SessionIInv, NEW i \in 1 .. 2, DoubleClick(i)
  PROVE  SessionIInv'
<1>1. /\ Happens(Named("goto")) /\ i \in 1 .. Len(go.list)
      /\ UNCHANGED <<window, tables, resopars, files>>
  BY DEF DoubleClick
<1>2. PICK r \in GotoPos(go.list[i], Now) : Become(r)
  BY DEF DoubleClick
<1>3. /\ Now.latt = latt /\ Now.triangle = triangle /\ Now.go = go
      /\ Now \in [latt : Crystals, triangle : Triangles, go : Gotos]
  BY DEF Now, SessionIInv, SessionTypeOK
<1>4. go.list[i] \in Places
  BY <1>1, ListElement
<1>5. /\ r.latt = latt /\ r.triangle \in Triangles /\ r.go \in Gotos
      /\ Agree(r.latt, r.triangle, r.go)
      /\ Appliable(r.go) => AtPosition(r.latt, r.triangle, r.go)
      /\ \/ r.triangle = triangle
         \/ r.triangle.snap => OnPeak(r.triangle.peak, latt.crys)
  BY <1>2, <1>3, <1>4, GotoFacts DEF SessionIInv
<1>6. latt' = latt /\ triangle' = r.triangle /\ go' = r.go
  BY <1>2, <1>5 DEF Become
<1>7. SessionTypeOK' /\ Agree(latt, triangle, go)'
  BY <1>1, <1>5, <1>6, CountKept
  DEF SessionIInv, SessionTypeOK, files, Agree, Calculated
<1>8. Snapped' /\ CrystalCurrent' /\ GotoReaches'
  BY <1>1, <1>5, <1>6
  DEF SessionIInv, Snapped, CrystalCurrent, GotoReaches, AtPosition, Appliable
<1>9. SavedInv' /\ RoundTrip'
  BY <1>1, QuietEvent DEF SessionIInv, files
<1>. QED
  BY <1>7, <1>8, <1>9 DEF SessionIInv

-----------------------------------------------------------------------------
(* Files.                                                                  *)

LEMMA NewStep ==
  ASSUME SessionIInv, NEW c0 \in CrystalData, New(c0)
  PROVE  SessionIInv'
<1>. DEFINE w == [window EXCEPT !.crys = c0, !.d = 0, !.atoms = Empty,
                               !.dead = Empty]
            u == IF window.d # 0 THEN PassDs(w, triangle, go)
                 ELSE <<triangle, go>>
            l == [crys |-> c0, atoms |-> Empty]
            e == [u[2] EXCEPT !.crys = c0]
<1>1. w \in Windows /\ w.crys = c0 /\ w.atoms = Empty /\ l \in Crystals
  <2>1. window \in Windows /\ 0 \in DSpacings /\ Empty \in Lists
    BY SessionAssumption DEF SessionIInv, SessionTypeOK, DSpacings
  <2>2. w \in Windows /\ w.crys = c0 /\ w.atoms = Empty
    BY <2>1 DEF Windows
  <2>3. l \in Crystals
    BY <2>1 DEF Crystals
  <2>. QED
    BY <2>2, <2>3
<1>2. /\ Happens(Named("new")) /\ UNCHANGED <<disk, saved>>
      /\ window' = w /\ latt' = l
      /\ tables' = [atoms |-> Closed, dead |-> Closed]
      /\ resopars' = Closed /\ curfile' = NoFile
  BY DEF New
<1>3. PICK t \in Moved(u[1], Hkl(Other, c0), 1, 1, c0) :
        triangle' = t /\ go' = Reached(t, e, c0)
  BY DEF New
<1>. HIDE DEF w
<1>4. u[1] \in Triangles /\ u[2] \in Gotos /\ Agree(latt, u[1], u[2])
  BY <1>1, PassFacts DEF SessionIInv, SessionTypeOK
<1>5. /\ e \in Gotos /\ e.d = u[2].d /\ e.pos = u[2].pos /\ e.crys = c0
  BY <1>4 DEF Gotos
<1>6. Hkl(Other, c0) \in Vectors /\ 1 \in WaveNumbers
  BY DEF Hkl, Vectors, WaveNumbers
<1>. HIDE DEF u, e
<1>7. /\ t \in Triangles /\ t.d = u[1].d /\ t.pos = u[1].pos
      /\ t.snap => OnPeak(t.peak, c0)
  BY <1>3, <1>4, <1>6, MovedFacts
<1>8. go' \in Gotos /\ Agree(l, t, go')
  <2>1. e.d = t.d /\ e.pos = t.pos /\ e.crys = l.crys
    BY <1>4, <1>5, <1>7 DEF Agree
  <2>2. Reached(t, e, l.crys) \in Gotos /\ Agree(l, t, Reached(t, e, l.crys))
    BY <1>1, <1>5, <1>7, <2>1, ReachedFacts
  <2>. QED
    BY <1>3, <2>2
<1>9. SessionTypeOK' /\ Agree(latt, triangle, go)'
  BY <1>1, <1>2, <1>3, <1>7, <1>8, CountKept
  DEF SessionIInv, SessionTypeOK, Agree, Calculated
<1>10. Snapped' /\ CrystalCurrent'
  BY <1>1, <1>2, <1>3, <1>7 DEF Snapped, CrystalCurrent
<1>11. SavedInv' /\ RoundTrip' /\ GotoReaches'
  BY <1>2, QuietEvent DEF SessionIInv
<1>. QED
  BY <1>9, <1>10, <1>11 DEF SessionIInv

\* What is saved.
LEMMA SessionFacts ==
  ASSUME SessionIInv
  PROVE  /\ Session \in Sessions
         /\ Session.snap /\ Session.win.crys # BadPlane =>
              OnPeak(Session.nodes.peak, Session.win.crys)
<1>1. Fields(go) \in Places
  BY DEF SessionIInv, SessionTypeOK, Gotos, Fields, Place, Places
<1>2. Session \in Sessions
  BY <1>1 DEF SessionIInv, SessionTypeOK, Session, Sessions, Triangles, Gotos
<1>3. /\ Session.snap = triangle.snap /\ Session.win = window
      /\ Session.nodes.peak = triangle.peak
  BY DEF Session
<1>4. window.crys # BadPlane => latt.crys = window.crys
  BY DEF SessionIInv, CrystalCurrent
<1>. QED
  BY <1>2, <1>3, <1>4 DEF SessionIInv, Snapped

LEMMA SaveStep ==
  ASSUME SessionIInv, NEW f \in Files, Save(f)
  PROVE  SessionIInv'
<1>1. /\ Happens(Named("save")) /\ curfile' = f
      /\ disk' = [disk EXCEPT ![f] = <<Session>>]
      /\ saved' = [saved EXCEPT ![f] = <<Session>>]
      /\ UNCHANGED <<window, triangle, latt, go, tables, resopars>>
  BY DEF Save
<1>2. disk \in [Files -> {<<>>} \union {<<x>> : x \in Sessions}] /\ disk = saved
  BY DEF SessionIInv, SessionTypeOK, SavedInv
<1>3. disk' \in [Files -> {<<>>} \union {<<x>> : x \in Sessions}]
  BY <1>1, <1>2, SessionFacts
<1>4. SessionTypeOK' /\ Agree(latt, triangle, go)' /\ Snapped' /\ CrystalCurrent'
  BY <1>1, <1>3, CountKept
  DEF SessionIInv, SessionTypeOK, Agree, Calculated, Snapped, CrystalCurrent
<1>5. GotoReaches' /\ RoundTrip'
  BY <1>1 DEF GotoReaches, RoundTrip, Happens, Named
<1>6. SavedInv'
  <2>1. disk' = saved' /\ last'.name # "load"
    BY <1>1, <1>2 DEF Happens, Named
  <2>2. ASSUME NEW h \in Files, disk'[h] # <<>>
        PROVE  disk'[h][1].snap /\ disk'[h][1].win.crys # BadPlane =>
                 OnPeak(disk'[h][1].nodes.peak, disk'[h][1].win.crys)
    <3>1. CASE h = f
      <4>1. disk'[h] = <<Session>>
        BY <1>1, <1>2, <3>1
      <4>. QED
        BY <4>1, SessionFacts
    <3>2. CASE h # f
      <4>1. disk'[h] = disk[h]
        BY <1>1, <1>2, <3>2
      <4>. QED
        BY <2>2, <4>1 DEF SessionIInv, SavedInv
    <3>. QED
      BY <3>1, <3>2
  <2>. QED
    BY <2>1, <2>2 DEF SavedInv
<1>. QED
  BY <1>4, <1>5, <1>6 DEF SessionIInv

LEMMA SaveFailsStep ==
  ASSUME SessionIInv, NEW f \in Files, SaveFails(f)
  PROVE  SessionIInv'
<1>1. /\ Happens(Named("save")) /\ curfile' = f
      /\ UNCHANGED <<window, triangle, latt, go, tables, resopars, disk, saved>>
  BY DEF SaveFails
<1>2. SessionTypeOK' /\ Agree(latt, triangle, go)' /\ Snapped' /\ CrystalCurrent'
  BY <1>1, CountKept
  DEF SessionIInv, SessionTypeOK, Agree, Calculated, Snapped, CrystalCurrent
<1>3. SavedInv' /\ RoundTrip' /\ GotoReaches'
  BY <1>1, QuietEvent DEF SessionIInv
<1>. QED
  BY <1>2, <1>3 DEF SessionIInv

LEMMA FileFacts ==
  ASSUME SessionIInv, NEW f \in Files, disk[f] # <<>>
  PROVE  LET x == disk[f][1]
         IN  /\ x \in Sessions /\ saved[f] # <<>> /\ saved[f][1] = x
             /\ x.snap /\ x.win.crys # BadPlane =>
                  OnPeak(x.nodes.peak, x.win.crys)
<1>1. disk[f] \in {<<>>} \union {<<x>> : x \in Sessions}
  BY DEF SessionIInv, SessionTypeOK
<1>2. PICK x \in Sessions : disk[f] = <<x>>
  BY <1>1
<1>3. disk[f][1] = x
  BY <1>2
<1>. QED
  BY <1>2, <1>3 DEF SessionIInv, SavedInv

\* Load() of the goto dialog.
LEMMA LoadGotoFacts ==
  ASSUME NEW l, NEW t, NEW g \in Gotos,
         g.d = t.d, g.pos = t.pos, g.crys = l.crys,
         NEW x \in Sessions
  PROVE  LET h == LoadGoto(g, x)
         IN  /\ h \in Gotos /\ Agree(l, t, h)
             /\ Fields(h) = x.fields /\ h.list = x.list
<1>. DEFINE k == [g EXCEPT !.list = x.list]
            w == WithFields(k, x.fields)
            h == EditedKiKf(w)
<1>1. x.fields \in Places /\ x.list \in Seq(Places)
  BY DEF Sessions
<1>2. /\ k \in Gotos /\ k.d = g.d /\ k.pos = g.pos /\ k.crys = g.crys
      /\ k.list = x.list
  BY <1>1 DEF Gotos
<1>. HIDE DEF k
<1>3. /\ w \in Gotos /\ w.d = k.d /\ w.pos = k.pos /\ w.crys = k.crys
      /\ w.list = k.list
      /\ w.hkl = x.fields.hkl /\ w.ki = x.fields.ki /\ w.kf = x.fields.kf
  BY <1>1, <1>2, WithFieldsFacts DEF Places
<1>. HIDE DEF w
<1>4. h \in Gotos /\ Agree(l, t, h)
  BY <1>2, <1>3, AgreeEdited
<1>5. SameFields(h, w)
  BY <1>3, EditedFacts
<1>6. Fields(h) = x.fields /\ h.list = x.list
  BY <1>1, <1>2, <1>3, <1>5 DEF Fields, Place, SameFields, Places
<1>. QED
  BY <1>4, <1>6 DEF h, w, k, LoadGoto

LEMMA LoadListStep ==
  ASSUME SessionIInv, NEW f \in Files, LoadList(f)
  PROVE  SessionIInv'
<1>1. /\ Happens(Named("list")) /\ disk[f] # <<>>
      /\ go' = LoadGoto(go, disk[f][1])
      /\ UNCHANGED <<window, triangle, latt, tables, resopars, files>>
  BY DEF LoadList
<1>2. disk[f][1] \in Sessions
  BY <1>1, FileFacts
<1>3. go' \in Gotos /\ Agree(latt, triangle, go')
  BY <1>1, <1>2, LoadGotoFacts DEF SessionIInv, SessionTypeOK, Agree
<1>. QED
  BY <1>1, <1>3, GoStep

\* Load(), in its order: the sense is passed on, the nodes and the dialog's
\* fields are set, the spacings may be passed on, and the peaks calculated.
LEMMA LoadSessionStep ==
  ASSUME SessionIInv, NEW f \in Files, LoadSession(f)
  PROVE  SessionIInv'
<1>. DEFINE x == disk[f][1]
            u == IF x.win.pos # window.pos
                 THEN PassSense(x.win, triangle, go)
                 ELSE <<triangle, go>>
            snaps == x.snap /\ ~triangle.snap
            t == [u[1] EXCEPT !.q = x.nodes.q, !.ki = x.nodes.ki,
                              !.kf = x.nodes.kf, !.snap = x.snap]
            g == LoadGoto(u[2], x)
            v == IF x.reso # Closed /\ resopars = Closed
                 THEN PassDs(x.win, t, g)
                 ELSE <<t, g>>
<1>1. /\ disk[f] # <<>> /\ UNCHANGED <<disk, saved>> /\ curfile' = f
      /\ Happens([name |-> "load", file |-> f, snapped |-> snaps])
      /\ window' = x.win
      /\ resopars' = IF x.reso # Closed THEN x.reso ELSE resopars
      /\ tables' = [atoms |-> x.win.atoms,
                    dead |-> IF tables.dead = Closed THEN Closed
                             ELSE x.win.dead]
  BY DEF LoadSession
<1>p. PICK p \in IF snaps THEN Near(t.q, latt.crys) ELSE {x.nodes.peak} :
        \E o \in CalcCrystal(x.win, [v[1] EXCEPT !.peak = p], v[2]) :
          Become(IF resopars' = Closed THEN o
                 ELSE [o EXCEPT !.go = WithParams(@, o.triangle, o.latt.crys)])
  BY DEF LoadSession
<1>2. PICK o \in CalcCrystal(x.win, [v[1] EXCEPT !.peak = p], v[2]) :
        Become(IF resopars' = Closed THEN o
               ELSE [o EXCEPT !.go = WithParams(@, o.triangle, o.latt.crys)])
  BY <1>p
<1>. HIDE DEF x
<1>3. /\ x \in Sessions /\ saved[f] # <<>> /\ saved[f][1] = x
      /\ x.snap /\ x.win.crys # BadPlane => OnPeak(x.nodes.peak, x.win.crys)
  BY <1>1, FileFacts DEF x
<1>4. /\ x.win \in Windows /\ x.nodes.q \in Vectors /\ x.nodes.peak \in Vectors
      /\ x.nodes.ki \in WaveNumbers /\ x.nodes.kf \in WaveNumbers
      /\ x.snap \in BOOLEAN /\ x.reso \in Lists \union {Closed}
  BY <1>3 DEF Sessions
<1>5. u[1] \in Triangles /\ u[2] \in Gotos /\ Agree(latt, u[1], u[2])
  BY <1>4, PassFacts DEF SessionIInv, SessionTypeOK
<1>. HIDE DEF u
<1>6. /\ t \in Triangles /\ t.d = u[1].d /\ t.pos = u[1].pos
      /\ t.q = x.nodes.q /\ t.ki = x.nodes.ki /\ t.kf = x.nodes.kf
      /\ t.snap = x.snap
  BY <1>4, <1>5 DEF Triangles
<1>. HIDE DEF t
<1>7. /\ g \in Gotos /\ Agree(latt, t, g)
      /\ Fields(g) = x.fields /\ g.list = x.list
  BY <1>3, <1>5, <1>6, LoadGotoFacts DEF Agree
<1>. HIDE DEF g
<1>8. /\ v[1] \in Triangles /\ v[2] \in Gotos /\ Agree(latt, v[1], v[2])
      /\ v[1].q = t.q /\ v[1].ki = t.ki /\ v[1].kf = t.kf
      /\ v[1].snap = t.snap
      /\ Fields(v[2]) = Fields(g) /\ v[2].list = g.list
  <2>1. CASE x.reso # Closed /\ resopars = Closed
    BY <1>4, <1>6, <1>7, <2>1, PassFacts
  <2>2. CASE ~(x.reso # Closed /\ resopars = Closed)
    BY <1>6, <1>7, <2>2
  <2>. QED
    BY <2>1, <2>2
<1>. HIDE DEF v
<1>9. p \in Vectors /\ (~snaps => p = x.nodes.peak)
  <2>1. latt.crys \in CrystalData /\ t.q \in Vectors
    BY <1>4, <1>6 DEF SessionIInv, SessionTypeOK, Crystals
  <2>. QED
    BY <1>p, <1>4, <2>1, NearFacts
<1>. DEFINE s == [v[1] EXCEPT !.peak = p]
<1>10. /\ s \in Triangles /\ s.peak = p /\ s.d = v[1].d /\ s.pos = v[1].pos
       /\ s.q = x.nodes.q /\ s.ki = x.nodes.ki /\ s.kf = x.nodes.kf
       /\ s.snap = x.snap
  BY <1>6, <1>8, <1>9 DEF Triangles
<1>11. o \in CalcCrystal(x.win, s, v[2])
  BY <1>2
<1>. HIDE DEF s, snaps
<1>12. /\ o.latt \in Crystals /\ o.triangle \in Triangles /\ o.go \in Gotos
       /\ o = [latt |-> o.latt, triangle |-> o.triangle, go |-> o.go]
       /\ Agree(o.latt, o.triangle, o.go) /\ SameNodes(o.triangle, s)
       /\ Fields(o.go) = Fields(v[2]) /\ o.go.list = v[2].list
       /\ x.win.crys # BadPlane =>
            /\ o.latt = [crys |-> x.win.crys, atoms |-> x.win.atoms]
            /\ s.snap => OnPeak(o.triangle.peak, x.win.crys)
       /\ (s.snap /\ x.win.crys # BadPlane => OnPeak(s.peak, x.win.crys)) =>
            o.triangle.peak = s.peak
  <2>1. Agree(latt, s, v[2])
    BY <1>8, <1>10 DEF Agree
  <2>2. latt \in Crystals
    BY DEF SessionIInv, SessionTypeOK
  <2>. QED
    BY <1>4, <1>8, <1>10, <1>11, <2>1, <2>2, CrystalFacts
<1>13. /\ latt' = o.latt /\ triangle' = o.triangle
       /\ go' \in Gotos /\ Agree(latt', triangle', go')
       /\ Fields(go') = x.fields /\ go'.list = x.list
  <2>. DEFINE h == WithParams(o.go, o.triangle, o.latt.crys)
  <2>1. latt' = o.latt /\ triangle' = o.triangle /\ go' \in {o.go, h}
    <3>1. CASE resopars' = Closed
      BY <1>2, <3>1 DEF Become
    <3>2. CASE resopars' # Closed
      BY <1>2, <1>12, <3>2 DEF Become
    <3>. QED
      BY <3>1, <3>2
  <2>2. h \in Gotos /\ Agree(o.latt, o.triangle, h) /\ SameFields(h, o.go)
    BY <1>12, AgreeParams, ParamsFacts
  <2>. QED
    BY <1>7, <1>8, <1>12, <2>1, <2>2 DEF SameFields, Fields, Place
<1>14. SessionTypeOK'
  <2>1. count' \in Nat
    BY <1>1, CountKept DEF SessionIInv, SessionTypeOK
  <2>2. tables' \in [atoms : Lists \union {Closed}, dead : Lists \union {Closed}]
    BY <1>1, <1>4 DEF Windows
  <2>. QED
    BY <1>1, <1>4, <1>12, <1>13, <2>1, <2>2 DEF SessionIInv, SessionTypeOK
<1>15. Snapped' /\ CrystalCurrent'
  BY <1>1, <1>10, <1>12, <1>13 DEF Snapped, CrystalCurrent, SameNodes
<1>16. SavedInv' /\ GotoReaches'
  BY <1>1, <1>3 DEF SessionIInv, SavedInv, GotoReaches, Happens
<1>17. RoundTrip'
  <2>1. /\ last'.file = f /\ last'.snapped = snaps /\ saved'[last'.file][1] = x
    BY <1>1, <1>3 DEF Happens
  <2>2. /\ triangle'.q = x.nodes.q /\ triangle'.ki = x.nodes.ki
        /\ triangle'.kf = x.nodes.kf /\ triangle'.snap = x.snap
    BY <1>10, <1>12, <1>13 DEF SameNodes
  <2>3. triangle'.peak = IF snaps THEN triangle'.peak ELSE x.nodes.peak
    BY <1>3, <1>9, <1>10, <1>12, <1>13
  <2>. DEFINE n == [q |-> x.nodes.q, ki |-> x.nodes.ki, kf |-> x.nodes.kf,
                    peak |-> triangle'.peak]
              y == [x EXCEPT !.nodes.peak = IF snaps THEN triangle'.peak ELSE @,
                             !.reso = IF @ = Closed THEN resopars' ELSE @]
  <2>4. Session' = [win |-> x.win, nodes |-> n, snap |-> x.snap,
                    fields |-> x.fields, list |-> x.list, reso |-> resopars']
    BY <1>1, <1>13, <2>2 DEF Session
  <2>5. n = [x.nodes EXCEPT !.peak = IF snaps THEN triangle'.peak ELSE @]
    BY <1>3, <2>3 DEF Sessions
  <2>6. resopars' = IF x.reso = Closed THEN resopars' ELSE x.reso
    BY <1>1
  <2>. HIDE DEF n
  <2>7. y = [win |-> x.win, nodes |-> n, snap |-> x.snap,
             fields |-> x.fields, list |-> x.list, reso |-> resopars']
    <3>1. x = [win |-> x.win, nodes |-> x.nodes, snap |-> x.snap,
               fields |-> x.fields, list |-> x.list, reso |-> x.reso]
      BY <1>3 DEF Sessions
    <3>2. y = [x EXCEPT !.nodes = n, !.reso = resopars']
      BY <2>5, <2>6, <3>1
    <3>. HIDE DEF y
    <3>. QED
      BY <1>3, <3>2 DEF Sessions
  <2>8. Session' = y
    BY <2>4, <2>7
  <2>9. /\ tables'.atoms = window'.atoms
        /\ tables'.dead \in {Closed, window'.dead}
    BY <1>1
  <2>. QED
    BY <1>1, <2>1, <2>8, <2>9 DEF RoundTrip
<1>. QED
  BY <1>13, <1>14, <1>15, <1>16, <1>17 DEF SessionIInv, Agree, Calculated

\* Import(): the sense and the crystal of the scan, and then its position.
LEMMA ImportStep ==
  ASSUME SessionIInv, NEW c \in CrystalData, NEW d \in DSpacings,
         NEW pos \in BOOLEAN, NEW p \in Positions, Import(c, d, pos, p)
  PROVE  SessionIInv'
<1>. DEFINE u == IF pos # window.pos THEN PassSense(window', triangle, go)
                 ELSE <<triangle, go>>
            g == [u[2] EXCEPT !.list = <<p>>]
<1>1. /\ Happens(Named("goto")) /\ curfile' = NoFile
      /\ UNCHANGED <<tables, resopars, disk, saved>>
      /\ window' = [window EXCEPT !.crys = c, !.d = d, !.pos = pos]
  BY DEF Import
<1>2. /\ window' \in Windows /\ window'.crys = c /\ c # BadPlane
      /\ window'.atoms = window.atoms
  BY <1>1, SessionAssumption DEF SessionIInv, SessionTypeOK, Windows
<1>o. PICK o \in CalcCrystal(window', u[1], g) :
        \E r \in GotoPos(p, o) : Become(r)
  BY DEF Import
<1>3. PICK r \in GotoPos(p, o) : Become(r)
  BY <1>o
<1>4. u[1] \in Triangles /\ u[2] \in Gotos /\ Agree(latt, u[1], u[2])
  BY <1>2, PassFacts DEF SessionIInv, SessionTypeOK
<1>. HIDE DEF u
<1>5. p \in Places /\ <<p>> \in Seq(Places)
  BY DEF Positions, Places
<1>6. g \in Gotos /\ Agree(latt, u[1], g)
  BY <1>4, <1>5, ListFacts
<1>. HIDE DEF g
<1>7. /\ o.latt \in Crystals /\ o.triangle \in Triangles /\ o.go \in Gotos
      /\ o = [latt |-> o.latt, triangle |-> o.triangle, go |-> o.go]
      /\ Agree(o.latt, o.triangle, o.go)
      /\ o.latt = [crys |-> c, atoms |-> window.atoms]
      /\ o.triangle.snap => OnPeak(o.triangle.peak, c)
  BY <1>2, <1>o, <1>4, <1>6, CrystalFacts
  DEF SessionIInv, SessionTypeOK, SameNodes
<1>8. o \in [latt : Crystals, triangle : Triangles, go : Gotos]
  BY <1>7
<1>9. /\ r.latt = o.latt /\ r.triangle \in Triangles /\ r.go \in Gotos
      /\ Agree(r.latt, r.triangle, r.go)
      /\ Appliable(r.go) => AtPosition(r.latt, r.triangle, r.go)
      /\ r.triangle.snap => OnPeak(r.triangle.peak, c)
  <2>1. o.latt.crys = c
    BY <1>7
  <2>. QED
    BY <1>3, <1>5, <1>7, <1>8, <2>1, GotoFacts
<1>10. latt' = o.latt /\ triangle' = r.triangle /\ go' = r.go
  BY <1>3, <1>9 DEF Become
<1>11. SessionTypeOK' /\ Agree(latt, triangle, go)'
  BY <1>1, <1>2, <1>7, <1>9, <1>10, CountKept
  DEF SessionIInv, SessionTypeOK, Agree, Calculated
<1>12. Snapped' /\ CrystalCurrent' /\ GotoReaches'
  BY <1>2, <1>7, <1>9, <1>10
  DEF Snapped, CrystalCurrent, GotoReaches, AtPosition, Appliable
<1>13. SavedInv' /\ RoundTrip'
  BY <1>1, QuietEvent DEF SessionIInv
<1>. QED
  BY <1>11, <1>12, <1>13 DEF SessionIInv

-----------------------------------------------------------------------------
(* The theorems.                                                           *)

LEMMA SessionInitInv == SessionInit => SessionIInv
<1>. SUFFICES ASSUME SessionInit PROVE SessionIInv
  OBVIOUS
<1>1. PICK c \in CrystalData, h \in Peaks :
        /\ window = [crys |-> c, d |-> 0, pos |-> TRUE, atoms |-> Empty,
                     dead |-> Empty]
        /\ latt = [crys |-> c, atoms |-> Empty]
        /\ triangle = [d |-> 0, pos |-> TRUE, q |-> Hkl(Other, c), ki |-> 1,
                       kf |-> 1, peak |-> Hkl(h, c), snap |-> TRUE]
        /\ go = EditedKiKf([hkl |-> h, ki |-> 1, kf |-> 1, d |-> 0, crys |-> c,
                            pos |-> TRUE, monoAnaOk |-> FALSE,
                            sampleOk |-> FALSE, mono |-> 0, ana |-> 0,
                            sample |-> 0, list |-> <<>>,
                            params |-> Place(Other, 1, 1)])
  BY DEF SessionInit
<1>2. /\ tables = [atoms |-> Closed, dead |-> Closed]
      /\ resopars = Closed /\ curfile = NoFile
      /\ disk = [f \in Files |-> <<>>] /\ saved = disk
      /\ last = Named("start") /\ count = 0
  BY DEF SessionInit
<1>3. 0 \in DSpacings /\ 1 \in WaveNumbers /\ Empty \in Lists
  BY SessionAssumption DEF DSpacings, WaveNumbers
<1>4. go = [hkl |-> h, ki |-> 1, kf |-> 1, d |-> 0, crys |-> c, pos |-> TRUE,
            monoAnaOk |-> TRUE, sampleOk |-> TRUE, mono |-> 1, ana |-> 1,
            sample |-> [q |-> Hkl(h, c), ki |-> 1, kf |-> 1, pos |-> TRUE],
            list |-> <<>>, params |-> Place(Other, 1, 1)]
  <2>1. BraggSolvable(1, 0) /\ TriangleCloses(Place(h, 1, 1)) /\ 1 + 0 = 1
    BY DEF BraggSolvable, TriangleCloses, Place
  <2>. QED
    BY <1>1, <2>1 DEF EditedKiKf, CalcMonoAna, CalcSample, Fields, Place
<1>5. window \in Windows /\ latt \in Crystals /\ triangle \in Triangles
  BY <1>1, <1>3 DEF Windows, Crystals, Triangles, Hkl, Vectors
<1>6. go \in Gotos
  <2>1. <<>> \in Seq(Places) /\ Place(Other, 1, 1) \in
          [hkl : Peaks \union {Other}, ki : WaveNumbers, kf : WaveNumbers]
    BY <1>3 DEF Place
  <2>2. [q |-> Hkl(h, c), ki |-> 1, kf |-> 1, pos |-> TRUE] \in
          [q : Vectors, ki : WaveNumbers, kf : WaveNumbers, pos : BOOLEAN]
    BY <1>3 DEF Hkl, Vectors
  <2>. QED
    BY <1>3, <1>4, <2>1, <2>2 DEF Gotos
<1>7. SessionTypeOK
  BY <1>2, <1>5, <1>6 DEF SessionTypeOK
<1>8. Agree(latt, triangle, go)
  <2>1. /\ go.mono = 1 /\ go.ana = 1 /\ go.ki = 1 /\ go.kf = 1 /\ go.d = 0
        /\ go.hkl = h /\ go.crys = c /\ go.pos = TRUE
        /\ go.sample = [q |-> Hkl(h, c), ki |-> 1, kf |-> 1, pos |-> TRUE]
    BY <1>4
  <2>2. go.mono = go.ki + go.d /\ go.ana = go.kf + go.d
    BY <2>1
  <2>3. triangle.d = 0 /\ triangle.pos = TRUE /\ latt.crys = c
    BY <1>1
  <2>. QED
    BY <2>1, <2>2, <2>3 DEF Agree, Calculated
<1>9. Snapped /\ CrystalCurrent
  BY <1>1 DEF Snapped, CrystalCurrent, OnPeak, Hkl
<1>10. SavedInv /\ GotoReaches /\ RoundTrip
  BY <1>2 DEF SavedInv, GotoReaches, RoundTrip, Named
<1>. QED
  BY <1>7, <1>8, <1>9, <1>10 DEF SessionIInv

LEMMA SessionInductive == SessionIInv /\ [SessionNext]_sevars => SessionIInv'
<1>. SUFFICES ASSUME SessionIInv, [SessionNext]_sevars PROVE SessionIInv'
  OBVIOUS
<1>1. CASE UNCHANGED sevars
  BY <1>1
  DEF sevars, files, SessionIInv, SessionTypeOK, Agree, Calculated, Snapped,
      SavedInv, GotoReaches, CrystalCurrent, RoundTrip, Session
<1>2. CASE \E d \in DSpacings : EnterSpacing(d)
  BY <1>2, EnterSpacingStep
<1>3. CASE ToggleSense
  BY <1>3, ToggleSenseStep
<1>4. CASE \E c \in CrystalData \union {BadPlane} : EnterCrystal(c)
  BY <1>4, EnterCrystalStep
<1>5. CASE \E p \in Positions : Drag(p) \/ EditPosition(p) \/ EditedAngles(p)
  BY <1>5, DragStep, EditPositionStep, EditedAnglesStep
<1>6. CASE \E h \in Peaks : DragPeak(h)
  BY <1>6, DragPeakStep
<1>7. CASE SetSnapq
  BY <1>7, SetSnapqStep
<1>8. CASE \/ ShowTables
           \/ \E x \in Lists : SetReso(x) \/ ApplyDeadAngles(x)
  BY <1>8, DialogsStep
<1>9. CASE ShowReso
  BY <1>9, ShowResoStep
<1>10. CASE \E x \in Lists : ApplyAtoms(x)
  BY <1>10, ApplyAtomsStep
<1>11. CASE \E e \in {-1, 1}, fixedKi \in BOOLEAN : EditedE(e, fixedKi)
  BY <1>11, EditedEStep
<1>12. CASE GetCurPos \/ Apply
  BY <1>12, GetCurPosStep, ApplyStep
<1>13. CASE AddPosToList \/ RemPosFromList
  BY <1>13, ListStep
<1>14. CASE \E i \in 1 .. 2 : Select(i) \/ DoubleClick(i)
  BY <1>14, SelectStep, DoubleClickStep
<1>15. CASE \E c \in CrystalData : New(c)
  BY <1>15, NewStep
<1>16. CASE \E f \in Files :
              Save(f) \/ SaveFails(f) \/ LoadSession(f) \/ LoadList(f)
  BY <1>16, SaveStep, SaveFailsStep, LoadSessionStep, LoadListStep
<1>17. CASE \E c \in CrystalData, d \in DSpacings, pos \in BOOLEAN,
              p \in Positions : Import(c, d, pos, p)
  BY <1>17, ImportStep
<1>18. CASE \E c \in CrystalData, x \in Lists : ImportCIF(c, x)
  BY <1>18, ImportCIFStep
<1>. QED
  BY <1>1, <1>2, <1>3, <1>4, <1>5, <1>6, <1>7, <1>8, <1>9, <1>10, <1>11, <1>12,
     <1>13, <1>14, <1>15, <1>16, <1>17, <1>18 DEF SessionNext

\* For any crystals, peaks, lists and files the inductive invariant holds:
\* every handler passes on what it changes to the copies of it.
THEOREM SessionInvariance == SessionSpec => []SessionIInv
  BY SessionInitInv, SessionInductive, PTL DEF SessionSpec

\* GotoDlg::ApplyCurPos, GotoPos and an imported scan lead to the position that
\* the dialog has.
THEOREM Reaches == SessionSpec => []GotoReaches
<1>1. SessionIInv => GotoReaches
  BY DEF SessionIInv
<1>. QED
  BY <1>1, SessionInvariance, PTL

\* TazDlg::CalcPeaks is called wherever the crystal or the atoms change: the
\* scenes show those of the fields, unless they have no scattering plane.
THEOREM CrystalShown == SessionSpec => []CrystalCurrent
<1>1. SessionIInv => CrystalCurrent
  BY DEF SessionIInv
<1>. QED
  BY <1>1, SessionInvariance, PTL

\* TazDlg::Load restores what TazDlg::Save has written, in the scenes and the
\* dialogs, although it goes through handlers that snap and recalculate.
THEOREM SessionsReturn == SessionSpec => []RoundTrip
<1>1. SessionIInv => RoundTrip
  BY DEF SessionIInv
<1>. QED
  BY <1>1, SessionInvariance, PTL

-----------------------------------------------------------------------------
(* The scan viewer: the rows of a column that the spin boxes leave.        *)

\* The rows from the m-th on, n of them.
Window(s, m, n) ==
  /\ s \in Seq(Int) /\ Len(s) = n
  /\ \A k \in 1 .. n : s[k] = m + k

Least(n) == IF n < 0 THEN 0 ELSE n

LEMMA FirstErased ==
  ASSUME NEW s, NEW m \in Nat, NEW n \in Nat, Window(s, m, n), NEW d \in Nat
  PROVE  Window(EraseFirst(s, d), m + d, Least(n - d))
<1>1. CASE d >= n
  BY <1>1 DEF Window, EraseFirst, Least
<1>2. CASE d < n
  <2>. DEFINE u == SubSeq(s, d + 1, Len(s))
  <2>1. u \in Seq(Int) /\ Len(u) = n - d /\ \A k \in 1 .. n - d : u[k] = s[d + k]
    BY <1>2 DEF Window
  <2>2. EraseFirst(s, d) = u
    BY <1>2 DEF Window, EraseFirst
  <2>. HIDE DEF u
  <2>3. \A k \in 1 .. n - d : u[k] = (m + d) + k
    BY <1>2, <2>1 DEF Window
  <2>. QED
    BY <1>2, <2>1, <2>2, <2>3 DEF Window, Least
<1>. QED
  BY <1>1, <1>2

LEMMA LastErased ==
  ASSUME NEW s, NEW m \in Nat, NEW n \in Nat, Window(s, m, n), NEW d \in Nat
  PROVE  Window(EraseLast(s, d), m, Least(n - d))
<1>1. CASE d >= n
  BY <1>1 DEF Window, EraseLast, Least
<1>2. CASE d < n
  <2>. DEFINE u == SubSeq(s, 1, Len(s) - d)
  <2>1. u \in Seq(Int) /\ Len(u) = n - d /\ \A k \in 1 .. n - d : u[k] = s[k]
    BY <1>2 DEF Window
  <2>2. EraseLast(s, d) = u
    BY <1>2 DEF Window, EraseLast
  <2>. HIDE DEF u
  <2>. QED
    BY <1>2, <2>1, <2>2 DEF Window, Least
<1>. QED
  BY <1>1, <1>2

\* The length of a column.
Height(i, c) == Len(Col(i, c))

LEMMA ColFacts ==
  ASSUME NEW i \in Instrs, NEW c
  PROVE  Height(i, c) \in Nat /\ Window(Col(i, c), 0, Height(i, c))
<1>1. CASE c \in DOMAIN i.length
  <2>1. i.length[c] \in Nat
    BY <1>1 DEF Instrs
  <2>2. Col(i, c) = [r \in 1 .. i.length[c] |-> r]
    BY <1>1 DEF Col
  <2>3. Col(i, c) \in Seq(Int) /\ Len(Col(i, c)) = i.length[c]
    BY <2>1, <2>2
  <2>. QED
    BY <2>1, <2>2, <2>3 DEF Window, Height
<1>2. CASE c \notin DOMAIN i.length
  BY <1>2 DEF Col, Window, Height
<1>. QED
  BY <1>1, <1>2

\* How many rows are left.
Left(n, t) == Least(n - (t.start + t.stop))

LEMMA CutFacts ==
  ASSUME NEW i \in Instrs, NEW c, NEW t \in Trims
  PROVE  /\ Left(Height(i, c), t) \in Nat
         /\ Window(Cut(Col(i, c), t), t.start, Left(Height(i, c), t))
<1>1. t.start \in Nat /\ t.stop \in Nat
  BY DEF Trims
<1>. DEFINE h == Height(i, c)
<1>2. h \in Nat /\ Window(Col(i, c), 0, h)
  BY ColFacts
<1>. HIDE DEF h
<1>3. Window(EraseFirst(Col(i, c), t.start), t.start, Least(h - t.start))
  <2>1. Window(EraseFirst(Col(i, c), t.start), 0 + t.start, Least(h - t.start))
    BY <1>1, <1>2, FirstErased
  <2>. QED
    BY <1>1, <2>1
<1>4. Least(h - t.start) \in Nat
  BY <1>1, <1>2 DEF Least
<1>5. Window(Cut(Col(i, c), t), t.start, Least(Least(h - t.start) - t.stop))
  BY <1>1, <1>3, <1>4, LastErased DEF Cut
<1>6. /\ Least(Least(h - t.start) - t.stop) = Left(h, t)
      /\ Left(h, t) \in Nat
  BY <1>1, <1>2 DEF Least, Left
<1>. QED
  BY <1>5, <1>6 DEF h

LEMMA ShorterFacts ==
  ASSUME NEW m \in Nat, NEW n \in Nat
  PROVE  Shorter(m, n) \in Nat /\ Shorter(m, n) <= m /\ Shorter(m, n) <= n
  BY DEF Shorter

\* Rows are missing only where the monitor is shorter than y.
LEMMA MissingFacts ==
  ASSUME NEW i \in Instrs, NEW a \in Axes, NEW t \in Trims,
         RowsMissing(i, a, t)
  PROVE  Height(i, a.mon) < Height(i, a.y)
<1>. DEFINE y == Height(i, a.y)
            m == Height(i, a.mon)
            cy == Len(Cut(Col(i, a.y), t))
            cx == Len(Cut(Col(i, a.x), t))
            n == Shorter(cx, cy)
<1>1. y \in Nat /\ m \in Nat
  BY ColFacts
<1>2. /\ cy = Left(y, t) /\ cx \in Nat /\ cy \in Nat
  BY CutFacts DEF Window
<1>3. n \in Nat /\ n <= cy
  BY <1>2, ShorterFacts
<1>4. t.start \in Nat /\ t.stop \in Nat /\ t.skip \in Nat
  BY DEF Trims
<1>5. \/ t.start < y /\ m < t.start
      \/ t.start + t.stop < y /\ m < t.start + t.stop
      \/ \E k \in 0 .. n : /\ k * (t.skip + 1) < n
                          /\ m <= t.start + t.stop + k * (t.skip + 1)
  BY DEF RowsMissing, Height
<1>. HIDE DEF y, m, cx, n
<1>6. CASE \E k \in 0 .. n : /\ k * (t.skip + 1) < n
                           /\ m <= t.start + t.stop + k * (t.skip + 1)
  <2>1. PICK k \in 0 .. n : /\ k * (t.skip + 1) < n
                           /\ m <= t.start + t.stop + k * (t.skip + 1)
    BY <1>6
  <2>. DEFINE j == k * (t.skip + 1)
  <2>2. j \in Int /\ 0 <= j
    BY <1>3, <1>4
  <2>3. j < n /\ m <= t.start + t.stop + j
    BY <2>1
  <2>. HIDE DEF j, cy
  <2>4. 0 < cy
    BY <1>2, <1>3, <2>2, <2>3
  <2>5. cy = y - (t.start + t.stop)
    BY <1>1, <1>2, <1>4, <2>4 DEF Left, Least
  <2>6. m < y
    BY <1>1, <1>2, <1>3, <1>4, <2>2, <2>3, <2>5
  <2>. QED
    BY <2>6 DEF m, y
<1>7. CASE t.start < y /\ m < t.start
  <2>1. m < y
    BY <1>1, <1>4, <1>7
  <2>. QED
    BY <2>1 DEF m, y
<1>8. CASE t.start + t.stop < y /\ m < t.start + t.stop
  <2>1. m < y
    BY <1>1, <1>4, <1>8
  <2>. QED
    BY <2>1 DEF m, y
<1>. QED
  BY <1>5, <1>6, <1>7, <1>8

-----------------------------------------------------------------------------
(* Of these rows, every one after which some are skipped.                  *)

LEMMA Times ==
  ASSUME NEW j \in Int, NEW k \in Int, j < k, NEW b \in Int, b > 0
  PROVE  j * b + b <= k * b
<1>1. k * b - j * b = (k - j) * b
  OBVIOUS
<1>2. (k - j) * b >= 1 * b
  OBVIOUS
<1>3. k * b \in Int /\ j * b \in Int /\ 1 * b = b
  OBVIOUS
<1>. QED
  BY <1>1, <1>2, <1>3

\* How many blocks of b rows begin among the first n.
LEMMA Blocks ==
  ASSUME NEW n \in Nat, NEW b \in Nat, b > 0, NEW k \in Nat
  PROVE  k <= (n + (b - 1)) \div b <=> k * b <= n + (b - 1)
<1>. DEFINE q == (n + (b - 1)) \div b
            r == (n + (b - 1)) % b
<1>1. q \in Int /\ r \in 0 .. b - 1 /\ n + (b - 1) = b * q + r
  OBVIOUS
<1>. HIDE DEF q, r
<1>2. b * q = q * b /\ q * b \in Int /\ k * b \in Int
  BY <1>1
<1>3. ASSUME k <= q PROVE k * b <= n + (b - 1)
  <2>1. k * b <= q * b
    <3>1. CASE k = q
      BY <1>2, <3>1
    <3>2. CASE k < q
      <4>1. k * b + b <= q * b
        BY <1>1, <3>2, Times
      <4>. QED
        BY <1>2, <4>1
    <3>. QED
      BY <1>1, <1>3, <3>1, <3>2
  <2>. QED
    BY <1>1, <1>2, <2>1
<1>4. ASSUME ~(k <= q) PROVE ~(k * b <= n + (b - 1))
  <2>1. q * b + b <= k * b
    BY <1>1, <1>4, Times
  <2>. QED
    BY <1>1, <1>2, <2>1
<1>. QED
  BY <1>3, <1>4 DEF q

LEMMA OtherFacts ==
  ASSUME NEW s, NEW m \in Nat, NEW len \in Nat, Window(s, m, len),
         NEW n \in Nat, n <= len, NEW t \in Trims
  PROVE  LET e == EveryOther(s, n, t)
             b == t.skip + 1
         IN  /\ \A k \in DOMAIN e :
                  k \in Nat /\ k >= 1 /\ (k - 1) * b + 1 \in 1 .. n
             /\ \A k \in DOMAIN e : e[k] = m + ((k - 1) * b + 1)
             /\ \A k \in Nat : k >= 1 /\ (k - 1) * b + 1 <= n => k \in DOMAIN e
<1>. DEFINE b == t.skip + 1
            e == EveryOther(s, n, t)
            top == (n + t.skip) \div b
<1>1. b \in Nat /\ b > 0 /\ t.skip = b - 1
  BY DEF Trims
<1>. HIDE DEF b
<1>2. top \in Int
  BY <1>1 DEF Trims
<1>3. ASSUME NEW k \in Nat, k >= 1
      PROVE  /\ (k - 1) * b \in Int /\ 0 <= (k - 1) * b
             /\ k * b = (k - 1) * b + b
             /\ k <= top <=> (k - 1) * b + 1 <= n
  <2>1. (k - 1) * b \in Int /\ 0 <= (k - 1) * b /\ k * b = (k - 1) * b + b
    BY <1>1, <1>3
  <2>2. top = (n + (b - 1)) \div b
    BY <1>1
  <2>3. k <= top <=> k * b <= n + (b - 1)
    BY <1>1, <2>2, Blocks
  <2>. QED
    BY <1>1, <2>1, <2>3
<1>. HIDE DEF top, e
<1>4. e = [k \in 1 .. top |-> s[(k - 1) * b + 1]]
  BY DEF EveryOther, b, e, top
<1>5. DOMAIN e = 1 .. top
  BY <1>4
<1>6. ASSUME NEW k \in DOMAIN e
      PROVE  /\ k \in Nat /\ k >= 1 /\ (k - 1) * b + 1 \in 1 .. n
             /\ e[k] = m + ((k - 1) * b + 1)
  <2>1. k \in Nat /\ k >= 1 /\ k <= top
    BY <1>2, <1>5
  <2>2. (k - 1) * b + 1 \in 1 .. n
    BY <1>3, <2>1
  <2>3. e[k] = s[(k - 1) * b + 1]
    BY <1>4, <1>5
  <2>4. \A j \in 1 .. len : s[j] = m + j
    BY DEF Window
  <2>. QED
    BY <2>1, <2>2, <2>3, <2>4
<1>7. ASSUME NEW k \in Nat, k >= 1, (k - 1) * b + 1 <= n
      PROVE  k \in DOMAIN e
  <2>1. k <= top
    BY <1>3, <1>7
  <2>. QED
    BY <1>2, <1>5, <1>7, <2>1
<1>. QED
  BY <1>6, <1>7 DEF e, b

\* What is divisible.
LEMMA Divisible ==
  ASSUME NEW b \in Nat, b > 0
  PROVE  /\ \A j \in Nat : (j * b) % b = 0
         /\ \A x \in Nat : x % b = 0 => \E j \in Nat : x = j * b
<1>1. ASSUME NEW j \in Nat PROVE (j * b) % b = 0
  <2>. DEFINE x == j * b
              q == x \div b
              r == x % b
  <2>1. x \in Int /\ x >= 0
    OBVIOUS
  <2>2. q \in Int /\ r \in 0 .. b - 1 /\ x = b * q + r /\ b * q = q * b
    BY <2>1
  <2>. HIDE DEF q, r
  <2>3. ~(q < j)
    BY <2>2, Times
  <2>4. ~(j < q)
    BY <2>2, Times
  <2>5. j = q
    BY <2>2, <2>3, <2>4
  <2>6. r = 0
    BY <2>2, <2>5
  <2>. QED
    BY <2>6 DEF r
<1>2. ASSUME NEW x \in Nat, x % b = 0 PROVE \E j \in Nat : x = j * b
  <2>. DEFINE q == x \div b
              r == x % b
  <2>1. q \in Int /\ r \in 0 .. b - 1 /\ x = b * q + r /\ b * q = q * b
    OBVIOUS
  <2>. HIDE DEF q
  <2>2. ~(q < 0)
    <3>1. q < 0 => q * b + b <= 0 * b
      BY <2>1, Times
    <3>2. 0 * b = 0
      OBVIOUS
    <3>. QED
      BY <2>1, <3>1, <3>2
  <2>3. x = q * b /\ q \in Nat
    BY <1>2, <2>1, <2>2
  <2>. QED
    BY <2>3
<1>. QED
  BY <1>1, <1>2

LEMMA SameWindow ==
  ASSUME NEW m, NEW n, NEW s, Window(s, m, n), NEW u, Window(u, m, n)
  PROVE  s = u
  BY DEF Window

\* What is asked for, of a column with ny rows.
LEMMA AllRows ==
  ASSUME NEW s, NEW ny \in Nat, NEW t \in Trims, t.skip = 0,
         Window(s, t.start, Left(ny, t))
  PROVE  RowsOf(s) = Rows(ny, ny, t)
<1>. DEFINE n == Left(ny, t)
<1>1. t.start \in Nat /\ t.stop \in Nat /\ n \in Nat
  BY DEF Trims, Left, Least
<1>2. DOMAIN s = 1 .. n /\ \A k \in 1 .. n : s[k] = t.start + k
  BY <1>1 DEF Window
<1>3. ASSUME NEW k \in 1 .. n PROVE t.start + k \in Rows(ny, ny, t)
  <2>1. t.start + k \in 1 .. ny /\ t.start + k <= ny - t.stop
    BY <1>1 DEF Left, Least
  <2>2. (t.start + k - t.start - 1) % (t.skip + 1) = 0
    BY <1>1
  <2>. QED
    BY <1>1, <2>1, <2>2 DEF Rows
<1>4. ASSUME NEW r \in Rows(ny, ny, t)
      PROVE  \E k \in 1 .. n : r = t.start + k
  <2>1. r \in 1 .. ny /\ t.start < r /\ r <= ny - t.stop
    BY DEF Rows
  <2>2. r - t.start \in 1 .. n /\ r = t.start + (r - t.start)
    BY <1>1, <2>1 DEF Left, Least
  <2>. QED
    BY <2>2
<1>. HIDE DEF n
<1>5. RowsOf(s) = {t.start + k : k \in 1 .. n}
  BY <1>2 DEF RowsOf
<1>. QED
  BY <1>3, <1>4, <1>5 DEF Rows

LEMMA OtherRows ==
  ASSUME NEW s, NEW ny \in Nat, NEW n \in Nat, n <= ny, NEW t \in Trims,
         Window(s, t.start, Left(ny, t))
  PROVE  RowsOf(EveryOther(s, Left(n, t), t)) = Rows(n, ny, t)
<1>. DEFINE l == Left(n, t)
            e == EveryOther(s, l, t)
            b == t.skip + 1
<1>1. /\ t.start \in Nat /\ t.stop \in Nat /\ l \in Nat /\ Left(ny, t) \in Nat
      /\ l <= Left(ny, t) /\ b \in Nat /\ b > 0
  BY DEF Trims, Left, Least
<1>2. /\ \A k \in DOMAIN e : k \in Nat /\ k >= 1 /\ (k - 1) * b + 1 \in 1 .. l
      /\ \A k \in DOMAIN e : e[k] = t.start + ((k - 1) * b + 1)
      /\ \A k \in Nat : k >= 1 /\ (k - 1) * b + 1 <= l => k \in DOMAIN e
  BY <1>1, OtherFacts
<1>. HIDE DEF e, b
<1>3. ASSUME NEW k \in DOMAIN e PROVE e[k] \in Rows(n, ny, t)
  <2>. DEFINE j == (k - 1) * b
  <2>1. j + 1 \in 1 .. l /\ e[k] = t.start + (j + 1)
    BY <1>2
  <2>2. j \in Int /\ j % b = 0
    <3>1. k - 1 \in Nat
      BY <1>2
    <3>. QED
      BY <1>1, <3>1, Divisible
  <2>. HIDE DEF j
  <2>3. e[k] \in 1 .. ny /\ t.start < e[k] /\ e[k] <= n - t.stop
    BY <1>1, <2>1, <2>2 DEF Left, Least
  <2>4. e[k] - t.start - 1 = j
    BY <1>1, <2>1, <2>2
  <2>. QED
    BY <2>2, <2>3, <2>4 DEF Rows, b
<1>4. ASSUME NEW r \in Rows(n, ny, t) PROVE \E k \in DOMAIN e : r = e[k]
  <2>. DEFINE x == r - t.start - 1
  <2>1. /\ r \in 1 .. ny /\ t.start < r /\ r <= n - t.stop
        /\ x % b = 0
    BY DEF Rows, b
  <2>2. x \in Nat /\ x + 1 <= l
    BY <1>1, <2>1 DEF Left, Least
  <2>. HIDE DEF x
  <2>3. PICK j \in Nat : x = j * b
    BY <1>1, <2>1, <2>2, Divisible
  <2>4. j + 1 \in Nat /\ j + 1 >= 1 /\ ((j + 1) - 1) * b + 1 = x + 1
    BY <2>3
  <2>5. j + 1 \in DOMAIN e
    BY <1>2, <2>2, <2>4
  <2>6. e[j + 1] = t.start + (x + 1)
    BY <1>2, <2>4, <2>5
  <2>7. r = e[j + 1]
    BY <1>1, <2>1, <2>6 DEF x
  <2>. QED
    BY <2>5, <2>7
<1>5. RowsOf(e) = Rows(n, ny, t)
  BY <1>3, <1>4 DEF RowsOf
<1>. QED
  BY <1>5 DEF e

\* PlotScan: the points are the rows that are asked for, in their order.
LEMMA PlotFacts ==
  ASSUME NEW i \in Instrs, NEW a \in Axes, NEW t \in Trims, NEW norm \in BOOLEAN
  PROVE  LET p == PlotOf(i, a, t, norm)
             nx == Height(i, a.x)
             ny == Height(i, a.y)
             n == IF t.skip = 0 THEN ny ELSE Shorter(nx, ny)
         IN  /\ RowsOf(p.y) = Rows(n, ny, t)
             /\ \A j, k \in DOMAIN p.y : j < k => p.y[j] < p.y[k]
             /\ nx = ny => p.x = p.y
             /\ p.of = i /\ p.xlabel = a.x /\ p.ylabel = a.y
             /\ p.by # NoColumn => norm /\ p.by = a.mon
<1>. DEFINE p == PlotOf(i, a, t, norm)
            nx == Height(i, a.x)
            ny == Height(i, a.y)
            cx == Cut(Col(i, a.x), t)
            cy == Cut(Col(i, a.y), t)
            m == Shorter(Len(cx), Len(cy))
            n == IF t.skip = 0 THEN ny ELSE Shorter(nx, ny)
<1>1. /\ nx \in Nat /\ ny \in Nat
      /\ Window(cx, t.start, Left(nx, t)) /\ Window(cy, t.start, Left(ny, t))
  BY ColFacts, CutFacts
<1>2. /\ t.start \in Nat /\ t.stop \in Nat /\ t.skip \in Nat
      /\ Left(nx, t) \in Nat /\ Left(ny, t) \in Nat
  BY <1>1 DEF Trims, Left, Least
<1>3. /\ Shorter(nx, ny) \in Nat /\ Shorter(nx, ny) <= ny
      /\ m = Left(Shorter(nx, ny), t) /\ m \in Nat /\ m <= Left(ny, t)
  <2>1. Len(cx) = Left(nx, t) /\ Len(cy) = Left(ny, t)
    BY <1>1 DEF Window
  <2>. HIDE DEF cx, cy, nx, ny
  <2>. QED
    BY <1>1, <1>2, <2>1 DEF Shorter, Left, Least
<1>4. /\ p.of = i /\ p.xlabel = a.x /\ p.ylabel = a.y
      /\ p.x = IF t.skip = 0 THEN cx ELSE EveryOther(cx, m, t)
      /\ p.y = IF t.skip = 0 THEN cy ELSE EveryOther(cy, m, t)
      /\ p.by # NoColumn => norm /\ p.by = a.mon
  BY DEF PlotOf
<1>. HIDE DEF p, nx, ny, cx, cy, m
<1>5. RowsOf(p.y) = Rows(n, ny, t)
  <2>1. CASE t.skip = 0
    BY <1>1, <1>4, <2>1, AllRows
  <2>2. CASE t.skip # 0
    BY <1>1, <1>3, <1>4, <2>2, OtherRows
  <2>. QED
    BY <2>1, <2>2
<1>6. ASSUME NEW j \in DOMAIN p.y, NEW k \in DOMAIN p.y, j < k
      PROVE  p.y[j] < p.y[k]
  <2>1. CASE t.skip = 0
    BY <1>1, <1>2, <1>4, <1>6, <2>1 DEF Window
  <2>2. CASE t.skip # 0
    <3>. DEFINE e == EveryOther(cy, m, t)
                b == t.skip + 1
    <3>1. p.y = e
      BY <1>4, <2>2
    <3>2. /\ \A h \in DOMAIN e :
               h \in Nat /\ h >= 1 /\ (h - 1) * b + 1 \in 1 .. m
          /\ \A h \in DOMAIN e : e[h] = t.start + ((h - 1) * b + 1)
          /\ \A h \in Nat : h >= 1 /\ (h - 1) * b + 1 <= m => h \in DOMAIN e
      <4>1. /\ t.start \in Nat /\ Left(ny, t) \in Nat
            /\ Window(cy, t.start, Left(ny, t))
            /\ m \in Nat /\ m <= Left(ny, t)
        BY <1>1, <1>2, <1>3
      <4>. QED
        BY <4>1, OtherFacts
    <3>. HIDE DEF e
    <3>3. /\ j - 1 \in Int /\ k - 1 \in Int /\ j - 1 < k - 1
          /\ b \in Int /\ b > 0
      BY <1>2, <1>6, <3>1, <3>2
    <3>4. (j - 1) * b + b <= (k - 1) * b
      BY <3>3, Times
    <3>. DEFINE v == (j - 1) * b
                w == (k - 1) * b
    <3>5. v \in Int /\ w \in Int /\ v < w
      <4>1. v \in Int /\ w \in Int /\ v + b <= w
        BY <3>3, <3>4
      <4>. HIDE DEF v, w, b
      <4>. QED
        BY <3>3, <4>1
    <3>6. p.y[j] = t.start + (v + 1) /\ p.y[k] = t.start + (w + 1)
      BY <3>1, <3>2
    <3>. HIDE DEF v, w
    <3>. QED
      BY <1>2, <3>5, <3>6
  <2>. QED
    BY <2>1, <2>2
<1>7. nx = ny => p.x = p.y
  BY <1>1, <1>4, SameWindow
<1>. QED
  BY <1>4, <1>5, <1>6, <1>7 DEF p, nx, ny

-----------------------------------------------------------------------------
(* What is loaded.                                                         *)

LEMMA InstrFacts ==
  ASSUME SvTypeOK, NEW first \in ScanFiles, NEW S \in SUBSET ScanFiles
  PROVE  LET i == Instr(first, S)
         IN  \/ i = NotLoaded
             \/ i \in Instrs /\ i.dir = curDir /\ i.files \subseteq S
<1>. DEFINE all == {f \in S : Loadable(f)}
            D == {d \in Columns : Has(first, d)}
            length == [c \in D |-> NRows * Cardinality({f \in all : Has(f, c)})]
<1>1. ASSUME NEW c \in D
      PROVE  NRows * Cardinality({f \in all : Has(f, c)}) \in Nat
  <2>1. IsFiniteSet({f \in all : Has(f, c)})
    BY ViewerAssumption, FS_Subset
  <2>2. Cardinality({f \in all : Has(f, c)}) \in Nat
    BY <2>1, FS_CardinalityType
  <2>. QED
    BY <2>2, ViewerAssumption
<1>2. D \in SUBSET Columns /\ all \in SUBSET ScanFiles
  OBVIOUS
<1>3. length \in [D -> Nat]
  BY <1>1
<1>4. CASE Loadable(first)
  <2>1. Instr(first, S) = [files |-> all, dir |-> curDir, length |-> length]
    BY <1>4 DEF Instr
  <2>. HIDE DEF all, D, length
  <2>2. /\ [files |-> all, dir |-> curDir, length |-> length] \in Instrs
    BY <1>2, <1>3 DEF Instrs, SvTypeOK
  <2>3. all \subseteq S
    BY DEF all
  <2>. QED
    BY <2>1, <2>2, <2>3
<1>5. CASE ~Loadable(first)
  BY <1>5 DEF Instr
<1>. QED
  BY <1>4, <1>5

\* A file is not nothing.
LEMMA LoadedIsFile ==
  ASSUME NEW i \in Instrs PROVE i # NotLoaded
  BY DEF Instrs, NotLoaded

-----------------------------------------------------------------------------
(* Plotting and selecting.                                                 *)

Options == [norm : BOOLEAN, lang : Languages, devices : Devices]

\* A plot of what the widgets say; a fit is of the same file.
LEMMA PlotScanFacts ==
  ASSUME NEW i \in Instrs, NEW a \in Axes, NEW t \in Trims, NEW f,
         NEW opt \in Options, NEW before,
         PlotScan(i, a, t, f, opt, before),
         instr' = i, axes' = a, trim' = t, options' = opt, fit' = f,
         f # NoPlot => f.of = i /\ found' = f,
         DOMAIN before = {"props", "pol", "export"},
         before.props = i, before.pol = [of |-> i, by |-> opt.devices]
  PROVE  /\ ViewInv' /\ EmptyInv' /\ undefined' \in BOOLEAN
         /\ DOMAIN texts' = {"props", "pol", "export"}
<1>1. /\ undefined' = RowsMissing(i, a, t)
      /\ plot' = PlotOf(i, a, t, opt.norm)
      /\ line' = IF f # NoPlot THEN f ELSE plot'
      /\ texts' = [before EXCEPT !.export = Export(plot', opt.lang)]
  BY DEF PlotScan
<1>2. plot'.of = i
  BY <1>1, PlotFacts DEF Options
<1>3. i # NotLoaded
  BY LoadedIsFile
<1>4. undefined' \in BOOLEAN
  BY <1>1 DEF RowsMissing
<1>5. /\ texts'.export = Export(plot', opt.lang) /\ texts'.props = i
      /\ texts'.pol = [of |-> i, by |-> opt.devices]
      /\ DOMAIN texts' = {"props", "pol", "export"}
  BY <1>1
<1>6. line'.of = i
  BY <1>1, <1>2
<1>. QED
  BY <1>1, <1>3, <1>4, <1>5, <1>6 DEF ViewInv, EmptyInv

LEMMA ClearPlotFacts ==
  ASSUME ClearPlot, texts'.export = NoText
  PROVE  /\ ViewInv' /\ EmptyInv' /\ undefined' \in BOOLEAN
         /\ instr' = NotLoaded /\ axes' \in Axes /\ trim' \in Trims
  BY DEF ClearPlot, ViewInv, EmptyInv, NoAxes, NoTrim, Axes, Trims

\* FileSelected: the selected files are loaded and plotted, or nothing is.
LEMMA FileSelectedFacts ==
  ASSUME SvTypeOK, NEW S \in SUBSET ScanFiles, FileSelected(S),
         UNCHANGED options
  PROVE  /\ ViewInv' /\ EmptyInv' /\ undefined' \in BOOLEAN
         /\ axes' \in Axes /\ trim' \in Trims
         /\ DOMAIN texts' = {"props", "pol", "export"}
         /\ \/ instr' = NotLoaded
            \/ instr' \in Instrs /\ instr'.dir = curDir /\ instr'.files \subseteq S
<1>. USE DEF FileSelected
<1>1. PICK first \in S :
        LET i == Instr(first, S)
            a == [x |-> "scan", y |-> "counts",
                  mon |-> IF Has(first, "monitor") THEN "monitor" ELSE NoColumn]
            t == [NoTrim EXCEPT !.skip =
                    IF content[curDir][first] = "pol" THEN 1 ELSE 0]
        IN  IF i = NotLoaded
            THEN ClearPlot /\ texts' = [texts EXCEPT !.export = NoText]
            ELSE /\ instr' = i /\ axes' = a /\ trim' = t
                 /\ fit' = NoPlot /\ found' = found
                 /\ PlotScan(i, a, t, fit', options,
                             ShowProps(CalcPol(texts, i, options.devices), i))
  OBVIOUS
<1>. DEFINE i == Instr(first, S)
            a == [x |-> "scan", y |-> "counts",
                  mon |-> IF Has(first, "monitor") THEN "monitor" ELSE NoColumn]
            t == [NoTrim EXCEPT !.skip =
                    IF content[curDir][first] = "pol" THEN 1 ELSE 0]
            before == ShowProps(CalcPol(texts, i, options.devices), i)
<1>2. DOMAIN texts = {"props", "pol", "export"} /\ options \in Options
  BY DEF SvTypeOK, Options
<1>3. CASE i = NotLoaded
  <2>1. ClearPlot /\ texts' = [texts EXCEPT !.export = NoText]
    BY <1>1, <1>3
  <2>2. texts'.export = NoText /\ DOMAIN texts' = {"props", "pol", "export"}
    BY <1>2, <2>1
  <2>. QED
    BY <2>1, <2>2, ClearPlotFacts
<1>4. CASE i # NotLoaded
  <2>1. /\ instr' = i /\ axes' = a /\ trim' = t /\ fit' = NoPlot
        /\ PlotScan(i, a, t, NoPlot, options, before)
    BY <1>1, <1>4
  <2>2. i \in Instrs /\ i.dir = curDir /\ i.files \subseteq S
    BY <1>4, InstrFacts
  <2>3. a \in Axes /\ t \in Trims
    BY DEF Axes, Trims, Columns, NoTrim
  <2>. HIDE DEF i, a, t
  <2>4. /\ DOMAIN before = {"props", "pol", "export"} /\ before.props = i
        /\ before.pol = [of |-> i, by |-> options.devices]
    BY <1>2, <1>4 DEF ShowProps, CalcPol
  <2>. HIDE DEF before
  <2>5. /\ ViewInv' /\ EmptyInv' /\ undefined' \in BOOLEAN
        /\ DOMAIN texts' = {"props", "pol", "export"}
    BY <1>2, <2>1, <2>2, <2>3, <2>4, PlotScanFacts
  <2>. QED
    BY <2>1, <2>2, <2>3, <2>5
<1>. QED
  BY <1>3, <1>4

-----------------------------------------------------------------------------
(* The steps.                                                              *)

LEMMA ActKept ==
  ASSUME SvTypeOK, Act PROVE acts' \in Nat /\ ~undefined
  BY DEF SvTypeOK, Act

\* Nothing that is listed or loaded changes.
LEMMA ListKept ==
  ASSUME ListTrue, UNCHANGED <<content, path, curDir, notified, items, instr>>
  PROVE  ListTrue'
  BY DEF ListTrue, Listed

LEMMA SelectFilesStep ==
  ASSUME SvIInv, NEW S \in SUBSET ScanFiles, SelectFiles(S)
  PROVE  SvIInv'
<1>1. /\ Act /\ S \subseteq items.texts
      /\ UNCHANGED <<content, path, curDir, notified, options>>
  BY DEF SelectFiles
<1>2. PICK c \in IF S = {} THEN items.texts ELSE S :
        items' = [items EXCEPT !.selected = S, !.current = c]
  BY DEF SelectFiles
<1>3. /\ items' \in [texts : SUBSET ScanFiles, selected : SUBSET ScanFiles,
                     current : ScanFiles \union {NoItem}]
      /\ items'.texts = items.texts /\ items'.selected = S
      /\ S # {} => items'.current \in S
  BY <1>2 DEF SvIInv, SvTypeOK
<1>4. CASE S = {}
  <2>1. UNCHANGED <<instr, views, texts, undefined>>
    BY <1>4 DEF SelectFiles
  <2>2. SvTypeOK'
    BY <1>1, <1>3, <2>1, ActKept DEF SvIInv, SvTypeOK, views
  <2>3. EmptyInv' /\ ViewInv'
    BY <1>1, <2>1 DEF SvIInv, EmptyInv, ViewInv, views
  <2>4. ListTrue'
    BY <1>1, <1>3, <1>4, <2>1 DEF SvIInv, ListTrue, Listed
  <2>. QED
    BY <2>2, <2>3, <2>4 DEF SvIInv
<1>5. CASE S # {}
  <2>1. FileSelected(S)
    BY <1>5 DEF SelectFiles
  <2>2. /\ ViewInv' /\ EmptyInv' /\ undefined' \in BOOLEAN
        /\ axes' \in Axes /\ trim' \in Trims
        /\ DOMAIN texts' = {"props", "pol", "export"}
        /\ \/ instr' = NotLoaded
           \/ instr' \in Instrs /\ instr'.dir = curDir /\ instr'.files \subseteq S
    BY <1>1, <2>1, FileSelectedFacts DEF SvIInv
  <2>3. SvTypeOK'
    BY <1>1, <1>3, <2>2, ActKept DEF SvIInv, SvTypeOK
  <2>4. ListTrue'
    BY <1>1, <1>3, <1>5, <2>2 DEF SvIInv, ListTrue, Listed
  <2>. QED
    BY <2>2, <2>3, <2>4 DEF SvIInv
<1>. QED
  BY <1>4, <1>5

LEMMA ChangedPathStep ==
  ASSUME SvIInv, NEW d \in Dirs \union {NoDir}, ChangedPath(d)
  PROVE  SvIInv'
<1>1. /\ Act /\ path' = d /\ ClearPlot /\ UNCHANGED <<content, options>>
      /\ curDir' = IF d = NoDir THEN curDir ELSE d
      /\ notified' = (d = NoDir /\ notified)
      /\ items' = [texts |-> IF d = NoDir THEN {} ELSE Listed(d),
                   selected |-> {}, current |-> NoItem]
      /\ texts' = [texts EXCEPT !.props = NotLoaded, !.export = NoText]
  BY DEF ChangedPath
<1>2. texts'.export = NoText /\ DOMAIN texts' = {"props", "pol", "export"}
  BY <1>1 DEF SvIInv, SvTypeOK
<1>3. /\ ViewInv' /\ EmptyInv' /\ undefined' \in BOOLEAN
      /\ instr' = NotLoaded /\ axes' \in Axes /\ trim' \in Trims
  BY <1>1, <1>2, ClearPlotFacts
<1>4. items' \in [texts : SUBSET ScanFiles, selected : SUBSET ScanFiles,
                  current : ScanFiles \union {NoItem}]
  BY <1>1 DEF Listed
<1>5. SvTypeOK'
  BY <1>1, <1>2, <1>3, <1>4, ActKept DEF SvIInv, SvTypeOK
<1>6. ListTrue'
  BY <1>1, ViewerAssumption DEF SvIInv, ListTrue, Listed
<1>. QED
  BY <1>3, <1>5, <1>6 DEF SvIInv

LEMMA DirWasModifiedStep == ASSUME SvIInv, DirWasModified PROVE SvIInv'
<1>. DEFINE c == items.current
            again == c \in Listed(curDir)
<1>1. /\ notified' = FALSE /\ UNCHANGED <<content, path, curDir, options, acts>>
      /\ items' = [texts |-> Listed(curDir),
                   selected |-> IF again THEN {c} ELSE {},
                   current |-> IF again THEN c ELSE NoItem]
      /\ IF again THEN FileSelected({c})
                  ELSE UNCHANGED <<instr, views, texts, undefined>>
  BY DEF DirWasModified
<1>2. Listed(curDir)' = Listed(curDir) /\ Listed(curDir) \subseteq ScanFiles
  BY <1>1 DEF Listed
<1>3. items' \in [texts : SUBSET ScanFiles, selected : SUBSET ScanFiles,
                  current : ScanFiles \union {NoItem}]
  BY <1>1, <1>2
<1>4. CASE again
  <2>1. /\ ViewInv' /\ EmptyInv' /\ undefined' \in BOOLEAN
        /\ axes' \in Axes /\ trim' \in Trims
        /\ DOMAIN texts' = {"props", "pol", "export"}
        /\ \/ instr' = NotLoaded
           \/ /\ instr' \in Instrs /\ instr'.dir = curDir
              /\ instr'.files \subseteq {c}
    BY <1>1, <1>2, <1>4, FileSelectedFacts DEF SvIInv
  <2>2. SvTypeOK'
    BY <1>1, <1>3, <2>1 DEF SvIInv, SvTypeOK
  <2>3. ListTrue'
    BY <1>1, <1>2, <1>4, <2>1 DEF SvIInv, ListTrue
  <2>. QED
    BY <2>1, <2>2, <2>3 DEF SvIInv
<1>5. CASE ~again
  <2>1. UNCHANGED <<instr, views, texts, undefined>>
    BY <1>1, <1>5
  <2>2. SvTypeOK'
    BY <1>1, <1>3, <2>1 DEF SvIInv, SvTypeOK, views
  <2>3. EmptyInv' /\ ViewInv'
    BY <1>1, <2>1 DEF SvIInv, EmptyInv, ViewInv, views
  <2>4. ListTrue'
    BY <1>1, <1>2, <1>5, <2>1 DEF SvIInv, ListTrue
  <2>. QED
    BY <2>2, <2>3, <2>4 DEF SvIInv
<1>. QED
  BY <1>4, <1>5

\* The axes, the spin boxes and the normalisation plot again.
LEMMA ReplotStep ==
  ASSUME SvIInv, NEW a \in Axes, NEW t \in Trims, NEW opt \in Options,
         opt.devices = options.devices, opt.lang = options.lang,
         Act, Replot(a, t, opt)
  PROVE  SvIInv'
<1>1. /\ axes' = a /\ trim' = t /\ options' = opt
      /\ UNCHANGED <<content, lists, instr, fit, found>>
      /\ IF instr = NotLoaded THEN UNCHANGED <<plot, line, texts, undefined>>
                              ELSE PlotScan(instr, a, t, fit, opt, texts)
  BY DEF Replot
<1>2. ListTrue'
  BY <1>1, ListKept DEF SvIInv, lists
<1>3. CASE instr = NotLoaded
  <2>1. UNCHANGED <<plot, line, texts, undefined>>
    BY <1>1, <1>3
  <2>2. EmptyInv' /\ ViewInv'
    BY <1>1, <1>3, <2>1 DEF SvIInv, EmptyInv, ViewInv
  <2>3. SvTypeOK'
    BY <1>1, <2>1, ActKept DEF SvIInv, SvTypeOK, lists, Options
  <2>. QED
    BY <1>2, <2>2, <2>3 DEF SvIInv
<1>4. CASE instr # NotLoaded
  <2>1. PlotScan(instr, a, t, fit, opt, texts)
    BY <1>1, <1>4
  <2>2. instr \in Instrs /\ DOMAIN texts = {"props", "pol", "export"}
    BY <1>4 DEF SvIInv, SvTypeOK
  <2>3. /\ texts.props = instr /\ texts.pol = [of |-> instr, by |-> opt.devices]
        /\ fit # NoPlot => fit.of = instr /\ found = fit
    BY <1>4 DEF SvIInv, ViewInv
  <2>4. instr' = instr /\ fit' = fit /\ found' = found
    BY <1>1
  <2>5. /\ ViewInv' /\ EmptyInv' /\ undefined' \in BOOLEAN
        /\ DOMAIN texts' = {"props", "pol", "export"}
    BY <1>1, <2>1, <2>2, <2>3, <2>4, PlotScanFacts
  <2>6. SvTypeOK'
    BY <1>1, <2>5, ActKept DEF SvIInv, SvTypeOK, lists, Options
  <2>. QED
    BY <1>2, <2>5, <2>6 DEF SvIInv
<1>. QED
  BY <1>3, <1>4

LEMMA SelectAxisStep ==
  ASSUME SvIInv, NEW x \in DOMAIN NoAxes, NEW c \in Columns, SelectAxis(x, c)
  PROVE  SvIInv'
<1>1. [axes EXCEPT ![x] = c] \in Axes
  BY DEF SvIInv, SvTypeOK, Axes, NoAxes
<1>2. trim \in Trims /\ options \in Options
  BY DEF SvIInv, SvTypeOK, Options
<1>. QED
  BY <1>1, <1>2, ReplotStep DEF SelectAxis

LEMMA SetTrimStep ==
  ASSUME SvIInv, NEW x \in DOMAIN NoTrim, NEW n \in 0 .. MaxTrim, SetTrim(x, n)
  PROVE  SvIInv'
<1>1. n \in Nat
  BY ViewerAssumption
<1>2. [trim EXCEPT ![x] = n] \in Trims
  BY <1>1 DEF SvIInv, SvTypeOK, Trims, NoTrim
<1>3. axes \in Axes /\ options \in Options
  BY DEF SvIInv, SvTypeOK, Options
<1>. QED
  BY <1>2, <1>3, ReplotStep DEF SetTrim

LEMMA NormaliseStep == ASSUME SvIInv, Normalise PROVE SvIInv'
<1>. DEFINE opt == [options EXCEPT !.norm = ~@]
<1>1. /\ opt \in Options /\ opt.devices = options.devices
      /\ opt.lang = options.lang
  BY DEF SvIInv, SvTypeOK, Options
<1>2. trim \in Trims /\ axes \in Axes
  BY DEF SvIInv, SvTypeOK
<1>3. Act /\ Replot(axes, trim, opt)
  BY DEF Normalise
<1>. HIDE DEF opt
<1>. QED
  BY <1>1, <1>2, <1>3, ReplotStep

\* The text and the polarisation are made again.
LEMMA SelectLanguageStep ==
  ASSUME SvIInv, NEW l \in Languages, SelectLanguage(l)
  PROVE  SvIInv'
<1>1. /\ Act /\ options' = [options EXCEPT !.lang = l]
      /\ texts' = [texts EXCEPT !.export = Export(plot, l)]
      /\ UNCHANGED <<content, lists, instr, views, undefined>>
  BY DEF SelectLanguage
<1>2. ListTrue'
  BY <1>1, ListKept DEF SvIInv, lists
<1>3. /\ texts'.export = Export(plot, l) /\ texts'.props = texts.props
      /\ texts'.pol = texts.pol /\ DOMAIN texts' = {"props", "pol", "export"}
  BY <1>1 DEF SvIInv, SvTypeOK
<1>4. /\ options' \in [norm : BOOLEAN, lang : Languages, devices : Devices]
      /\ options'.lang = l /\ options'.norm = options.norm
      /\ options'.devices = options.devices
  BY <1>1 DEF SvIInv, SvTypeOK
<1>5. SvTypeOK'
  BY <1>1, <1>3, <1>4, ActKept DEF SvIInv, SvTypeOK, lists, views
<1>6. EmptyInv' /\ ViewInv'
  BY <1>1, <1>3, <1>4 DEF SvIInv, EmptyInv, ViewInv, views, Export, Drawable
<1>. QED
  BY <1>2, <1>5, <1>6 DEF SvIInv

LEMMA EditDevicesStep ==
  ASSUME SvIInv, NEW n \in Devices, EditDevices(n)
  PROVE  SvIInv'
<1>1. /\ Act /\ options' = [options EXCEPT !.devices = n]
      /\ texts' = CalcPol(texts, instr, n)
      /\ UNCHANGED <<content, lists, instr, views, undefined>>
  BY DEF EditDevices
<1>2. ListTrue'
  BY <1>1, ListKept DEF SvIInv, lists
<1>3. /\ texts'.export = texts.export /\ texts'.props = texts.props
      /\ instr # NotLoaded => texts'.pol = [of |-> instr, by |-> n]
      /\ DOMAIN texts' = {"props", "pol", "export"}
  BY <1>1 DEF SvIInv, SvTypeOK, CalcPol
<1>4. /\ options' \in [norm : BOOLEAN, lang : Languages, devices : Devices]
      /\ options'.lang = options.lang /\ options'.norm = options.norm
      /\ options'.devices = n
  BY <1>1 DEF SvIInv, SvTypeOK
<1>5. SvTypeOK'
  BY <1>1, <1>3, <1>4, ActKept DEF SvIInv, SvTypeOK, lists, views
<1>6. EmptyInv' /\ ViewInv'
  BY <1>1, <1>3, <1>4 DEF SvIInv, EmptyInv, ViewInv, views
<1>. QED
  BY <1>2, <1>5, <1>6 DEF SvIInv

LEMMA FitStep ==
  ASSUME SvIInv, NEW ps, NEW ok \in BOOLEAN, Fit(ps, ok)
  PROVE  SvIInv'
<1>1. /\ Act /\ Drawable(plot)
      /\ UNCHANGED <<content, lists, instr, axes, trim, options>>
      /\ fit' = IF ok THEN [of |-> plot.of, data |-> plot, params |-> ps]
                ELSE NoPlot
      /\ found' = IF ok THEN fit' ELSE found
      /\ IF ok THEN PlotScan(instr, axes, trim, fit', options, texts)
               ELSE UNCHANGED <<plot, line, texts, undefined>>
  BY DEF Fit
<1>2. ListTrue'
  BY <1>1, ListKept DEF SvIInv, lists
<1>3. instr # NotLoaded /\ instr \in Instrs
  BY <1>1 DEF SvIInv, SvTypeOK, EmptyInv, Drawable
<1>4. axes \in Axes /\ trim \in Trims /\ options \in Options
  BY DEF SvIInv, SvTypeOK, Options
<1>5. CASE ok
  <2>. DEFINE f == [of |-> plot.of, data |-> plot, params |-> ps]
  <2>1. plot.of = instr
    BY <1>3, <1>4, PlotFacts DEF SvIInv, ViewInv, Options
  <2>2. f.of = instr /\ fit' = f /\ found' = f
    BY <1>1, <1>5, <2>1
  <2>. HIDE DEF f
  <2>3. PlotScan(instr, axes, trim, f, options, texts)
    BY <1>1, <1>5, <2>2
  <2>4. /\ DOMAIN texts = {"props", "pol", "export"} /\ texts.props = instr
        /\ texts.pol = [of |-> instr, by |-> options.devices]
    BY <1>3 DEF SvIInv, SvTypeOK, ViewInv
  <2>5. /\ instr' = instr /\ axes' = axes /\ trim' = trim /\ options' = options
    BY <1>1
  <2>6. /\ ViewInv' /\ EmptyInv' /\ undefined' \in BOOLEAN
        /\ DOMAIN texts' = {"props", "pol", "export"}
    BY <1>3, <1>4, <2>2, <2>3, <2>4, <2>5, PlotScanFacts
  <2>7. SvTypeOK'
    BY <1>1, <2>6, ActKept DEF SvIInv, SvTypeOK, lists
  <2>. QED
    BY <1>2, <2>6, <2>7 DEF SvIInv
<1>6. CASE ~ok
  <2>1. UNCHANGED <<plot, line, texts, undefined>> /\ fit' = NoPlot
    BY <1>1, <1>6
  <2>2. SvTypeOK'
    BY <1>1, <2>1, ActKept DEF SvIInv, SvTypeOK, lists
  <2>3. EmptyInv' /\ ViewInv'
    BY <1>1, <2>1 DEF SvIInv, EmptyInv, ViewInv
  <2>. QED
    BY <1>2, <2>2, <2>3 DEF SvIInv
<1>. QED
  BY <1>5, <1>6

\* The watcher tells of the files that come and go in its directory.
LEMMA WriteStep ==
  ASSUME SvIInv, NEW d \in Dirs, NEW f \in ScanFiles,
         NEW c \in Contents \union {Absent}, Write(d, f, c)
  PROVE  SvIInv'
<1>1. /\ Act /\ content[d][f] # c
      /\ content' = [content EXCEPT ![d][f] = c]
      /\ notified' = (notified \/ (d = curDir /\ Absent \in {c, content[d][f]}))
      /\ UNCHANGED <<path, curDir, items, instr, views, options, texts, undefined>>
  BY DEF Write
<1>2. content' \in [Dirs -> [ScanFiles -> Contents \union {Absent}]]
  BY <1>1 DEF SvIInv, SvTypeOK
<1>3. SvTypeOK'
  BY <1>1, <1>2, ActKept DEF SvIInv, SvTypeOK, views
<1>4. EmptyInv' /\ ViewInv'
  BY <1>1 DEF SvIInv, EmptyInv, ViewInv, views
<1>5. ~notified' => ~notified /\ Listed(curDir)' = Listed(curDir)
  <2>1. SUFFICES ASSUME ~notified'
                 PROVE  ~notified /\ Listed(curDir)' = Listed(curDir)
    OBVIOUS
  <2>2. ~notified /\ (d = curDir => c # Absent /\ content[d][f] # Absent)
    BY <1>1, <2>1
  <2>3. ASSUME NEW g \in ScanFiles
        PROVE  content'[curDir][g] # Absent <=> content[curDir][g] # Absent
    <3>1. curDir \in Dirs
      BY DEF SvIInv, SvTypeOK
    <3>2. CASE d = curDir /\ g = f
      BY <1>1, <2>2, <3>1, <3>2 DEF SvIInv, SvTypeOK
    <3>3. CASE ~(d = curDir /\ g = f)
      BY <1>1, <3>1, <3>3 DEF SvIInv, SvTypeOK
    <3>. QED
      BY <3>2, <3>3
  <2>. QED
    BY <1>1, <2>2, <2>3 DEF Listed
<1>6. ListTrue'
  BY <1>1, <1>5 DEF SvIInv, ListTrue
<1>. QED
  BY <1>3, <1>4, <1>6 DEF SvIInv

-----------------------------------------------------------------------------
(* The theorems.                                                           *)

LEMMA SvInitInv == SvInit => SvIInv
<1>. SUFFICES ASSUME SvInit PROVE SvIInv
  OBVIOUS
<1>1. content \in [Dirs -> [ScanFiles -> Contents \union {Absent}]]
  BY DEF SvInit, Contents
<1>2. SvTypeOK
  BY <1>1 DEF SvInit, SvTypeOK, Listed, NoAxes, NoTrim, Axes, Trims, Languages,
              Devices
<1>3. EmptyInv /\ ViewInv
  BY DEF SvInit, EmptyInv, ViewInv
<1>4. ListTrue
  BY DEF SvInit, ListTrue
<1>. QED
  BY <1>2, <1>3, <1>4 DEF SvIInv

LEMMA SvInductive == SvIInv /\ [SvNext]_svvars => SvIInv'
<1>. SUFFICES ASSUME SvIInv, [SvNext]_svvars PROVE SvIInv'
  OBVIOUS
<1>1. CASE UNCHANGED svvars
  <2>1. SvTypeOK' /\ EmptyInv' /\ ViewInv'
    BY <1>1 DEF svvars, views, lists, SvIInv, SvTypeOK, EmptyInv, ViewInv
  <2>2. ListTrue'
    BY <1>1, ListKept DEF svvars, lists, SvIInv
  <2>. QED
    BY <2>1, <2>2 DEF SvIInv
<1>2. CASE \E S \in SUBSET ScanFiles : SelectFiles(S)
  BY <1>2, SelectFilesStep
<1>3. CASE \E d \in Dirs \union {NoDir} : ChangedPath(d)
  BY <1>3, ChangedPathStep
<1>4. CASE DirWasModified
  BY <1>4, DirWasModifiedStep
<1>5. CASE \E x \in DOMAIN NoAxes, c \in Columns : SelectAxis(x, c)
  BY <1>5, SelectAxisStep
<1>6. CASE \E x \in DOMAIN NoTrim, n \in 0 .. MaxTrim : SetTrim(x, n)
  BY <1>6, SetTrimStep
<1>7. CASE Normalise
  BY <1>7, NormaliseStep
<1>8. CASE \E l \in Languages : SelectLanguage(l)
  BY <1>8, SelectLanguageStep
<1>9. CASE \E n \in Devices : EditDevices(n)
  BY <1>9, EditDevicesStep
<1>10. CASE \E ok \in BOOLEAN : FitLine(ok)
  BY <1>10, FitStep DEF FitLine
<1>11. CASE \E sloped \in BOOLEAN, ok \in BOOLEAN :
              \/ FitParabola(sloped, ok) \/ FitSine(sloped, ok)
              \/ FitGauss(sloped, ok) \/ FitLorentz(sloped, ok)
              \/ FitVoigt(sloped, ok)
  BY <1>11, FitStep
  DEF FitParabola, FitSine, FitGauss, FitLorentz, FitVoigt, FitSloped
<1>12. CASE \E d \in Dirs, f \in ScanFiles, c \in Contents \union {Absent} :
              Write(d, f, c)
  BY <1>12, WriteStep
<1>. QED
  BY <1>1, <1>2, <1>3, <1>4, <1>5, <1>6, <1>7, <1>8, <1>9, <1>10, <1>11, <1>12
  DEF SvNext

\* For any directories, files, rows and trimmed rows the inductive invariant
\* holds: every signal of a widget plots again what the widgets say.
THEOREM SvInvariance == SvSpec => []SvIInv
  BY SvInitInv, SvInductive, PTL DEF SvSpec

\* ScanViewerDlg::DirWasModified and ChangedPath keep the list with the
\* directory, and what is loaded with what is selected.
THEOREM ListFollows == SvSpec => []ListTrue
<1>1. SvIInv => ListTrue
  BY DEF SvIInv
<1>. QED
  BY <1>1, SvInvariance, PTL

\* ScanViewerDlg::PlotScan draws the rows that the spin boxes leave, in their
\* order, unless it has read rows of the monitor that do not exist.
THEOREM PlotShowsRows == SvSpec => []PlotTrue
<1>1. SvIInv => PlotTrue
  <2>. SUFFICES ASSUME SvIInv PROVE PlotTrue
    OBVIOUS
  <2>1. CASE undefined
    <3>1. instr # NotLoaded /\ instr \in Instrs /\ RowsMissing(instr, axes, trim)
      BY <2>1 DEF SvIInv, SvTypeOK, EmptyInv, ViewInv
    <3>2. Height(instr, axes.mon) < Height(instr, axes.y)
      BY <3>1, MissingFacts DEF SvIInv, SvTypeOK
    <3>. QED
      BY <2>1, <3>2 DEF PlotTrue, Height
  <2>2. CASE ~undefined /\ instr = NotLoaded
    BY <2>2 DEF SvIInv, EmptyInv, PlotTrue
  <2>3. CASE ~undefined /\ instr # NotLoaded
    <3>1. /\ instr \in Instrs /\ axes \in Axes /\ trim \in Trims
          /\ options.norm \in BOOLEAN
      BY <2>3 DEF SvIInv, SvTypeOK
    <3>2. /\ plot = PlotOf(instr, axes, trim, options.norm)
          /\ texts.export = Export(plot, options.lang)
          /\ texts.props = instr
          /\ texts.pol = [of |-> instr, by |-> options.devices]
          /\ line.of = instr /\ (fit # NoPlot => line = fit /\ found = fit)
      BY <2>3 DEF SvIInv, ViewInv
    <3>3. LET nx == Height(instr, axes.x)
              ny == Height(instr, axes.y)
              n == IF trim.skip = 0 THEN ny ELSE Shorter(nx, ny)
          IN  /\ RowsOf(plot.y) = Rows(n, ny, trim)
              /\ \A j, k \in DOMAIN plot.y : j < k => plot.y[j] < plot.y[k]
              /\ nx = ny => plot.x = plot.y
              /\ plot.of = instr /\ plot.xlabel = axes.x /\ plot.ylabel = axes.y
              /\ plot.by # NoColumn => options.norm /\ plot.by = axes.mon
      BY <3>1, <3>2, PlotFacts
    <3>. QED
      BY <2>3, <3>2, <3>3 DEF PlotTrue, Height
  <2>. QED
    BY <2>1, <2>2, <2>3
<1>. QED
  BY <1>1, SvInvariance, PTL
=============================================================================
