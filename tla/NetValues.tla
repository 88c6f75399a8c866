----------------------------- MODULE NetValues -----------------------------
(***************************************************************************)
(* The values a connection to the instrument brings (tools/taz/sics.cpp,   *)
(* nicos.cpp; dialogs/NetCacheDlg.cpp).  slot_receive runs in the TCP      *)
(* client's thread: it stores a value, posts it to the dialog of the cache *)
(* and, with the values stored before, the parameters of the scene that    *)
(* change.  The GUI thread handles these events, and clears the stored     *)
(* values on a refresh, also while slot_receive runs.                      *)
(*                                                                         *)
(* SICS is polled: its cache passes on only what differs from what it      *)
(* passed on before.  NICOS sends changes: all of them are passed on.  How *)
(* connections are made and closed is in NetConn.  Left out: the live plot *)
(* and the progress of a scan, which only show values.                     *)
(***************************************************************************)
EXTENDS Naturals, Sequences

CONSTANTS
  Keys,        \* names of devices
  Parameters,  \* parameters of the scenes: angles, lattice, orientation, ...
  Sources,     \* by system and parameter, the keys it is calculated from
  MaxVal,      \* bound: values are 0 .. MaxVal
  MaxConn,     \* bound: connections that are made
  MaxQueue     \* bound: events underway

Systems == {"nicos", "sics"}

ASSUME ValuesAssumption ==
  /\ "none" \notin Keys
  /\ Sources \in [Systems -> [Parameters -> SUBSET Keys]]
  /\ \A s \in Systems, p \in Parameters : Sources[s][p] # {}
  /\ MaxVal \in Nat /\ MaxConn \in Nat /\ MaxQueue \in Nat

None == MaxVal + 1
Vals == 0 .. MaxVal

\* A parameter's value is given by those of its source keys.
Zero(s, p) == [k \in Sources[s][p] |-> 0]

VARIABLES
  conn, sys, open,  \* m_pNetCache: its connection and class, and if it exists
  cached,   \* m_mapCache
  passed,   \* m_triagCache, m_crysCache (SICS): the values passed on last
  slot,     \* the value slot_receive has stored but not yet used, if any
  queue,    \* events posted to the GUI thread
  rows,     \* the rows of the cache dialog's table
  scene,    \* the parameters of the scenes
  movable,  \* the scenes' nodes can be moved with the mouse
  lastval,  \* history: by key, the last value received from this connection
  touched,  \* history: parameters the user has changed in a dialog since
  stale     \* history: keys with events underway when the table was cleared

connvars == <<conn, sys, open>>
histvars == <<lastval, touched, stale>>
nvvars == <<connvars, cached, passed, slot, queue, rows, scene, movable, histvars>>

NoRow == [conn |-> 0, val |-> None]
Unchanged == [p \in {} |-> 0]
NoSlot == [key |-> "none", val |-> None]
Value(k, v) == [key |-> k, conn |-> conn, val |-> v, new |-> Unchanged]
Change(ps) == [key |-> "none", conn |-> conn, val |-> None, new |-> ps]

\* The parameters an event changes (its bChanged... flags are set) get new values.
Overwrite(f, new) == [p \in DOMAIN f |-> IF p \in DOMAIN new THEN new[p] ELSE f[p]]

IsCached(p) == \A k \in Sources[sys][p] : cached[k] # None
CachedValue(p) == [k \in Sources[sys][p] |-> cached[k]]

-----------------------------------------------------------------------------

NvInit ==
  /\ conn = 0 /\ sys \in Systems /\ open = FALSE
  /\ cached = [k \in Keys |-> None]
  /\ passed = [p \in Parameters |-> Zero(sys, p)]
  /\ slot = NoSlot /\ queue = <<>>
  /\ rows = [k \in Keys |-> NoRow]
  /\ scene = [p \in Parameters |-> Zero(sys, p)]
  /\ movable = TRUE
  /\ lastval = [k \in Keys |-> None] /\ touched = {} /\ stale = {}

\* Mutant: the table is not cleared.
ConnectKeepsRows(s) ==
  /\ conn < MaxConn /\ slot = NoSlot
  /\ conn' = conn + 1 /\ sys' = s /\ open' = TRUE
  /\ cached' = [k \in Keys |-> None]
  /\ passed' = [p \in Parameters |-> Zero(s, p)]
  /\ movable' = FALSE
  /\ lastval' = [k \in Keys |-> None] /\ touched' = {}
  /\ stale' = {queue[i].key : i \in 1 .. Len(queue)}
  /\ UNCHANGED <<slot, queue, rows, scene>>

\* TazDlg::ConnectTo: the connection before is closed, its events are not
\* taken back.  The table is cleared, the nodes cannot be moved.
ConnectTo(s) ==
  /\ conn < MaxConn /\ slot = NoSlot
  /\ conn' = conn + 1 /\ sys' = s /\ open' = TRUE
  /\ cached' = [k \in Keys |-> None]
  /\ passed' = [p \in Parameters |-> Zero(s, p)]
  /\ rows' = [k \in Keys |-> NoRow]
  /\ movable' = FALSE
  /\ lastval' = [k \in Keys |-> None] /\ touched' = {}
  /\ stale' = {queue[i].key : i \in 1 .. Len(queue)}
  /\ UNCHANGED <<slot, queue, scene>>

\* TazDlg::Disconnect waits for slot_receive and deletes the cache.
Disconnect ==
  /\ open /\ slot = NoSlot
  /\ open' = FALSE /\ movable' = TRUE
  /\ cached' = [k \in Keys |-> None]
  /\ passed' = [p \in Parameters |-> Zero(sys, p)]
  /\ touched' = {}
  /\ UNCHANGED <<conn, sys, slot, queue, rows, scene, lastval, stale>>

\* Mutant: only the stored values are cleared.
RefreshKeepsPassed ==
  /\ open
  /\ IF sys = "sics"
       THEN /\ cached' = [k \in Keys |-> None]
            /\ touched' = {}
       ELSE UNCHANGED <<cached, touched>>
  /\ UNCHANGED <<connvars, passed, slot, queue, rows, scene, movable, lastval,
                 stale>>

\* TazDlg::NetRefresh: NICOS is asked for all values again.
Refresh ==
  /\ open
  /\ IF sys = "sics"
       THEN /\ cached' = [k \in Keys |-> None]
            /\ passed' = [p \in Parameters |-> Zero(sys, p)]
            /\ touched' = {}
       ELSE UNCHANGED <<cached, passed, touched>>
  /\ UNCHANGED <<connvars, slot, queue, rows, scene, movable, lastval, stale>>

\* slot_receive, up to the signal updated_cache_value
Receive(k, v) ==
  /\ open /\ slot = NoSlot /\ Len(queue) < MaxQueue
  /\ cached' = [cached EXCEPT ![k] = v]
  /\ queue' = Append(queue, Value(k, v))
  /\ slot' = [key |-> k, val |-> v]
  /\ lastval' = [lastval EXCEPT ![k] = v]
  /\ UNCHANGED <<connvars, passed, rows, scene, movable, touched, stale>>

\* The rest of slot_receive.  A parameter of one key has the value at hand;
\* one of several keys has those looked up, which a refresh may have cleared.
Several(p) == \E j, k \in Sources[sys][p] : j # k
Available(p) == Several(p) => IsCached(p)
NewValue(p) ==
  IF Several(p) THEN CachedValue(p) ELSE [k \in {slot.key} |-> slot.val]

Affected == {p \in Parameters : slot.key \in Sources[sys][p]}

\* NICOS passes on the parameters of the key and, with every value that is one
\* of a parameter's, those of several keys; SICS only those that differ.
PassedOn ==
  IF sys = "nicos"
    THEN {p \in Parameters :
            Available(p) /\ Affected # {} /\ (p \in Affected \/ Several(p))}
    ELSE {p \in Affected : Available(p) /\ NewValue(p) # passed[p]}

PassOn ==
  /\ slot # NoSlot /\ Len(queue) < MaxQueue
  /\ LET new == [p \in PassedOn |-> NewValue(p)]
     IN  /\ queue' = IF PassedOn = {} THEN queue ELSE Append(queue, Change(new))
         /\ passed' = IF sys = "sics" THEN Overwrite(passed, new) ELSE passed
  /\ slot' = NoSlot
  /\ UNCHANGED <<connvars, cached, rows, scene, movable, histvars>>

\* NetCacheDlg::UpdateValue and TazDlg::VarsChanged, of any connection.
Deliver ==
  /\ queue # <<>>
  /\ LET e == Head(queue)
     IN  /\ rows' = IF e.key = "none" THEN rows
                    ELSE [rows EXCEPT ![e.key] = [conn |-> e.conn, val |-> e.val]]
         /\ scene' = Overwrite(scene, e.new)
         /\ touched' = touched \ DOMAIN e.new
         /\ stale' = IF e.key # "none" /\ e.conn = conn THEN stale \ {e.key}
                     ELSE stale
  /\ queue' = Tail(queue)
  /\ UNCHANGED <<connvars, cached, passed, slot, movable, lastval>>

\* The user moves a node of a scene, or enters a value in a dialog.
MoveNode(p, x) ==
  /\ movable /\ x # scene[p]
  /\ scene' = [scene EXCEPT ![p] = x]
  /\ UNCHANGED <<connvars, cached, passed, slot, queue, rows, movable, histvars>>

EnterValue(p, x) ==
  /\ scene' = [scene EXCEPT ![p] = x]
  /\ touched' = IF open THEN touched \union {p} ELSE touched
  /\ UNCHANGED <<connvars, cached, passed, slot, queue, rows, movable, lastval,
                 stale>>

NvNext ==
  \/ \E s \in Systems : ConnectTo(s)
  \/ Disconnect
  \/ Refresh
  \/ \E k \in Keys, v \in Vals : Receive(k, v)
  \/ PassOn
  \/ Deliver
  \/ \E p \in Parameters : \E x \in [Sources[sys][p] -> Vals] :
       MoveNode(p, x) \/ EnterValue(p, x)

NvSpec == NvInit /\ [][NvNext]_nvvars

-----------------------------------------------------------------------------

Underway(k) == \E i \in 1 .. Len(queue) : queue[i].key = k

(***************************************************************************)
(* A row of the dialog of the cache shows the last value that came from    *)
(* the connection, once its event is handled.  Until a value comes it is   *)
(* not there; only an event that was underway when ConnectTo cleared the   *)
(* table may bring a row of the connection before.                         *)
(***************************************************************************)
RowsTrue ==
  \A k \in Keys :
    /\ ~Underway(k) /\ lastval[k] # None =>
         rows[k] = [conn |-> conn, val |-> lastval[k]]
    /\ rows[k] # NoRow /\ rows[k].conn = conn => lastval[k] # None
    /\ rows[k] = NoRow \/ rows[k].conn = conn \/ k \in stale

(***************************************************************************)
(* While the instrument is connected and all events are handled, a         *)
(* parameter of the scene is the one that the stored values give, unless   *)
(* the user has entered another since, or the values are zero, which a     *)
(* cleared cache takes for known (SicsCache::refresh).  Moving nodes with  *)
(* the mouse would break this, and ConnectTo forbids it.                   *)
(***************************************************************************)
SceneFollows ==
  open /\ queue = <<>> /\ slot = NoSlot =>
    \A p \in Parameters \ touched :
      IsCached(p) => \/ scene[p] = CachedValue(p)
                     \/ sys = "sics" /\ CachedValue(p) = Zero(sys, p)

-----------------------------------------------------------------------------
(* The inductive invariant of Windows_proofs.                              *)

\* What a parameter may be changed to.
Settings == UNION {[S -> Vals \union {None}] : S \in SUBSET Keys}
Events ==
  [key : Keys \union {"none"}, conn : Nat, val : Vals \union {None},
   new : UNION {[S -> Settings] : S \in SUBSET Parameters}]

NvTypeOK ==
  /\ conn \in Nat /\ sys \in Systems
  /\ cached \in [Keys -> Vals \union {None}]
  /\ \/ slot = NoSlot
     \/ slot \in [key : Keys, val : Vals]
  /\ queue \in Seq(Events)
  /\ rows \in [Keys -> [conn : Nat, val : Vals \union {None}]]
  /\ lastval \in [Keys -> Vals \union {None}]

\* Events come in the order of their connections; those of an earlier one are
\* of keys in stale, those of this one are not older than the last values.
OrderInv ==
  /\ \A i \in 1 .. Len(queue) : queue[i].conn <= conn
  /\ \A i, j \in 1 .. Len(queue) : i < j => queue[i].conn <= queue[j].conn
  /\ \A i \in 1 .. Len(queue) : queue[i].key # "none" =>
       IF queue[i].conn = conn THEN lastval[queue[i].key] # None
       ELSE queue[i].key \in stale

\* The last event of a key has its last value.
LastInv ==
  \A i \in 1 .. Len(queue) :
    /\ queue[i].key # "none" /\ lastval[queue[i].key] # None
    /\ \A j \in i + 1 .. Len(queue) : queue[j].key # queue[i].key
    => /\ queue[i].conn = conn /\ queue[i].val = lastval[queue[i].key]

RowsInv == \A k \in Keys : rows[k].conn <= conn

NvIInv == NvTypeOK /\ OrderInv /\ LastInv /\ RowsInv /\ RowsTrue
-----------------------------------------------------------------------------
(* What the scene will show: a second invariant, for SceneFollows.         *)

\* The events in q that change a parameter.
Changing(q, p) == {i \in 1 .. Len(q) : p \in DOMAIN q[i].new}

\* When the events in q are handled, p has the value x in a scene that is now
\* sc, or the user has entered (us) another since.
ToldIn(q, sc, us, p, x) ==
  IF Changing(q, p) = {} THEN p \in us \/ sc[p] = x
  ELSE \A i \in Changing(q, p) :
         (\A j \in Changing(q, p) : j <= i) => q[i].new[p] = x
Told(p, x) == ToldIn(queue, scene, touched, p, x)

\* The value slot_receive works on is the stored one, unless SICS' values have
\* been cleared since.
SlotInv ==
  slot # NoSlot => /\ open
                   /\ \/ cached[slot.key] = slot.val
                      \/ sys = "sics" /\ cached[slot.key] = None

\* SICS: the values stored are those passed on, and the scene is told these.
SicsInv ==
  open /\ sys = "sics" =>
    \A p \in Parameters :
      /\ IsCached(p) /\ p \notin Affected => passed[p] = CachedValue(p)
      /\ passed[p] # Zero(sys, p) => Told(p, passed[p])

\* NICOS: the scene is told the values stored.
NicosInv ==
  open /\ sys = "nicos" =>
    \A p \in Parameters :
      IsCached(p) /\ p \notin Affected => Told(p, CachedValue(p))

FollowInv ==
  /\ DOMAIN scene = Parameters /\ DOMAIN passed = Parameters
  /\ open => ~movable
  /\ SlotInv /\ SicsInv /\ NicosInv
=============================================================================
