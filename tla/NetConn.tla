------------------------------ MODULE NetConn ------------------------------
(***************************************************************************)
(* The life of a connection to the instrument (tools/taz/taz_net.cpp,      *)
(* sics.cpp, nicos.cpp).  The GUI thread creates and deletes the cache     *)
(* object.  The slots of the TCP client run in the client's own thread,    *)
(* which connects asynchronously; the cache's signals reach the main       *)
(* window as events.  SicsCache also has a thread that polls the server.   *)
(*                                                                         *)
(* The values that a connection brings are in NetValues.                   *)
(***************************************************************************)
EXTENDS Naturals, Sequences

CONSTANT MaxConn   \* bound: connections that are made

ASSUME ConnAssumption == MaxConn \in Nat

Conns == 1 .. MaxConn
Systems == {"nicos", "sics"}
None == 0

VARIABLES
  main,         \* where the GUI thread is in Disconnect()
  round,        \* 1: cache->disconnect(), 2: again, in the cache's destructor
  next,         \* what the GUI thread does after Disconnect()
  cache,        \* m_pNetCache: None, or the connection it was created for
  nconn,        \* number of connections so far
  sys,          \* the class of the cache
  tcp,          \* the TCP client, and the slot that runs in its thread
  pollerActive, \* m_bPollerActive
  poller,       \* m_pthPoller: None, or the thread it points to
  joined,       \* that thread was joined
  threads,      \* polling threads that run, named like their connections
  events,       \* events posted to the main window
  title,        \* the window's title: a connection, a file or the program
  doc,          \* m_strCurFile and m_vecAtoms: of a loaded file, or empty
  aborted,      \* std::terminate was called
  hasty,        \* history: disconnected before the connection was established
  tardy         \* history: disconnected before the event "connected" was handled

guivars == <<main, round, next>>
pollvars == <<pollerActive, poller, joined, threads>>
winvars == <<title, doc>>
netvars == <<guivars, cache, nconn, sys, tcp, pollvars, events, winvars,
          aborted, hasty, tardy>>

\* What a user's command does once the old connection is closed.
Afterwards == {"nothing", "load", "new"} \union Systems

Emit(e) == events' = Append(events, [ev |-> e, conn |-> cache])

\* The cache's "connected" has not been handled yet.
ConnectedUnderway(c) ==
  \E i \in 1 .. Len(events) : events[i] = [ev |-> "connected", conn |-> c]

-----------------------------------------------------------------------------
(* The GUI thread.                                                         *)

NetInit ==
  /\ main = "loop" /\ round = 1 /\ next = "nothing"
  /\ cache = None /\ nconn = 0 /\ sys = "nicos" /\ tcp = "off"
  /\ pollerActive \in BOOLEAN        \* not initialised
  /\ poller = None /\ joined = FALSE /\ threads = {}
  /\ events = <<>>
  /\ title = "program" /\ doc = "empty"
  /\ aborted = FALSE /\ hasty = FALSE /\ tardy = FALSE

\* The cache's disconnect(), from its first step.
FirstStep == IF sys = "sics" THEN "flag" ELSE "close"

\* ConnectTo, Disconnect, Load and New begin with Disconnect().
Disconnect(what) ==
  /\ main = "loop"
  /\ what \in Systems => nconn < MaxConn
  /\ IF cache # None
       THEN /\ main' = FirstStep /\ round' = 1
            /\ hasty' = (hasty \/ tcp \in {"connecting", "slot"})
       ELSE main' = "closed" /\ UNCHANGED <<round, hasty>>
  /\ next' = what
  /\ UNCHANGED <<cache, nconn, sys, tcp, pollvars, events, winvars, aborted,
                 tardy>>

\* Mutant: the poller is not told to end.
KeepActive ==
  /\ main = "flag"
  /\ main' = "join"
  /\ UNCHANGED <<round, next, cache, nconn, sys, tcp, pollvars, events,
                 winvars, aborted, hasty, tardy>>

\* SicsCache::disconnect: m_bPollerActive.store(false)
ClearActive ==
  /\ main = "flag"
  /\ pollerActive' = FALSE
  /\ main' = "join"
  /\ UNCHANGED <<round, next, cache, nconn, sys, tcp, poller, joined, threads,
                 events, winvars, aborted, hasty, tardy>>

\* ... join(), which waits until the thread has ended
JoinPoller ==
  /\ main = "join"
  /\ poller \notin threads
  /\ joined' = (joined \/ poller # None)
  /\ main' = "delete"
  /\ UNCHANGED <<round, next, cache, nconn, sys, tcp, pollerActive, poller,
                 threads, events, winvars, aborted, hasty, tardy>>

\* ... delete m_pthPoller: an error if it was not joined
DeletePoller ==
  /\ main = "delete"
  /\ IF poller # None /\ ~joined
       THEN aborted' = TRUE /\ UNCHANGED <<poller, main, joined>>
       ELSE /\ poller' = None /\ joined' = FALSE
            /\ main' = "close" /\ UNCHANGED aborted
  /\ UNCHANGED <<round, next, cache, nconn, sys, tcp, pollerActive, threads,
                 events, winvars, hasty, tardy>>

\* m_tcp.disconnect() waits for the client's thread, and signals the end of a
\* connection that was established; the slot runs here, in the GUI thread, and
\* so does TazDlg::Disconnected.  The second time, nothing is connected.
CloseTcp ==
  /\ main = "close" /\ tcp # "slot"
  /\ tcp' = "off"
  /\ IF tcp = "up"
       THEN title' = "program"
            /\ pollerActive' = (pollerActive /\ sys # "sics")
       ELSE UNCHANGED <<title, pollerActive>>
  /\ IF round = 1
       THEN round' = 2 /\ main' = FirstStep /\ UNCHANGED cache
       ELSE main' = "closed" /\ cache' = None /\ UNCHANGED round
  /\ tardy' = (tardy \/ ConnectedUnderway(cache))
  /\ UNCHANGED <<next, nconn, sys, poller, joined, threads, events, doc,
                 aborted, hasty>>

\* Load, once disconnected; it may fail to read the file.
FinishLoad ==
  /\ main = "closed" /\ next = "load"
  /\ \/ title' = "file" /\ doc' = "file"
     \/ UNCHANGED winvars
  /\ main' = "loop"
  /\ UNCHANGED <<round, next, cache, nconn, sys, tcp, pollvars, events,
                 aborted, hasty, tardy>>

\* New clears the crystal before it disconnects.
FinishNew ==
  /\ main = "closed" /\ next = "new"
  /\ title' = "program" /\ doc' = "empty"
  /\ main' = "loop"
  /\ UNCHANGED <<round, next, cache, nconn, sys, tcp, pollvars, events,
                 aborted, hasty, tardy>>

FinishDisconnect ==
  /\ main = "closed" /\ next = "nothing"
  /\ main' = "loop"
  /\ UNCHANGED <<round, next, cache, nconn, sys, tcp, pollvars, events,
                 winvars, aborted, hasty, tardy>>

\* ConnectTo, once disconnected: a new cache, whose client starts to connect.
Open ==
  /\ main = "closed" /\ next \in Systems
  /\ nconn' = nconn + 1 /\ cache' = nconn + 1
  /\ sys' = next /\ tcp' = "connecting"
  /\ pollerActive' \in BOOLEAN /\ poller' = None /\ joined' = FALSE
  /\ main' = "loop"
  /\ UNCHANGED <<round, next, threads, events, winvars, aborted, hasty, tardy>>

\* Mutant: the window forgets the crystal when a connection ends, too.
DeliverForgets ==
  /\ main = "loop" /\ events # <<>>
  /\ title' = IF Head(events).ev = "connected" THEN "connection" ELSE "program"
  /\ doc' = "empty"
  /\ events' = Tail(events)
  /\ UNCHANGED <<guivars, cache, nconn, sys, tcp, pollvars, aborted, hasty,
                 tardy>>

\* TazDlg::Connected, TazDlg::Disconnected
Deliver ==
  /\ main = "loop" /\ events # <<>>
  /\ IF Head(events).ev = "connected"
       THEN title' = "connection" /\ doc' = "empty"
       ELSE title' = "program" /\ UNCHANGED doc
  /\ events' = Tail(events)
  /\ UNCHANGED <<guivars, cache, nconn, sys, tcp, pollvars, aborted, hasty,
                 tardy>>

-----------------------------------------------------------------------------
(* The TCP client's thread and the polling thread.                         *)

\* slot_connected: SicsCache first sets m_bPollerActive.
Connected ==
  /\ tcp = "connecting"
  /\ IF sys = "sics"
       THEN pollerActive' = TRUE /\ tcp' = "slot" /\ UNCHANGED events
       ELSE Emit("connected") /\ tcp' = "up" /\ UNCHANGED pollerActive
  /\ UNCHANGED <<guivars, cache, nconn, sys, poller, joined, threads, winvars,
                 aborted, hasty, tardy>>

\* ... then creates the polling thread and signals the connection.
StartPoller ==
  /\ tcp = "slot"
  /\ poller' = cache /\ joined' = FALSE
  /\ threads' = threads \union {cache}
  /\ Emit("connected") /\ tcp' = "up"
  /\ UNCHANGED <<guivars, cache, nconn, sys, pollerActive, winvars, aborted,
                 hasty, tardy>>

\* The server cannot be reached.
ConnectFails ==
  /\ tcp = "connecting"
  /\ tcp' = "off"
  /\ UNCHANGED <<guivars, cache, nconn, sys, pollvars, events, winvars,
                 aborted, hasty, tardy>>

\* The server closes the connection: slot_disconnected.
Lost ==
  /\ tcp = "up"
  /\ tcp' = "lost"
  /\ pollerActive' = (pollerActive /\ sys # "sics")
  /\ Emit("disconnected")
  /\ UNCHANGED <<guivars, cache, nconn, sys, poller, joined, threads, winvars,
                 aborted, hasty, tardy>>

\* The polling thread sees m_bPollerActive cleared.
PollerEnds(t) ==
  /\ t \in threads /\ ~pollerActive
  /\ threads' = threads \ {t}
  /\ UNCHANGED <<guivars, cache, nconn, sys, tcp, pollerActive, poller, joined,
                 events, winvars, aborted, hasty, tardy>>

-----------------------------------------------------------------------------

GuiStep ==
  \/ ClearActive \/ JoinPoller \/ DeletePoller \/ CloseTcp
  \/ FinishLoad \/ FinishNew \/ FinishDisconnect \/ Open
  \/ Deliver

ClientStep == Connected \/ StartPoller \/ ConnectFails \/ Lost

\* std::terminate has ended the program.
Ended == aborted /\ UNCHANGED netvars

NetNext ==
  \/ /\ ~aborted
     /\ \/ \E what \in Afterwards : Disconnect(what)
        \/ GuiStep
        \/ ClientStep
        \/ \E t \in Conns : PollerEnds(t)
  \/ Ended

\* The GUI thread goes on, a slot of the client ends, and the polling thread
\* looks at its flag again and again.
NetFairness ==
  /\ WF_netvars(~aborted /\ GuiStep)
  /\ WF_netvars(~aborted /\ StartPoller)
  /\ \A t \in Conns : WF_netvars(~aborted /\ PollerEnds(t))

NetSpec == NetInit /\ [][NetNext]_netvars /\ NetFairness

-----------------------------------------------------------------------------

Events == [ev : {"connected", "disconnected"}, conn : Conns]

FlagsOK ==
  /\ pollerActive \in BOOLEAN /\ joined \in BOOLEAN
  /\ aborted \in BOOLEAN /\ hasty \in BOOLEAN /\ tardy \in BOOLEAN

(***************************************************************************)
(* The variables have the values of the code's types.                      *)
(***************************************************************************)
NetTypeOK ==
  /\ FlagsOK
  /\ main \in {"loop", "flag", "join", "delete", "close", "closed"}
  /\ round \in {1, 2} /\ next \in Afterwards
  /\ cache \in Conns \union {None} /\ nconn \in 0 .. MaxConn
  /\ sys \in Systems
  /\ tcp \in {"off", "connecting", "slot", "up", "lost"}
  /\ poller \in Conns \union {None} /\ threads \subseteq Conns
  /\ events \in Seq(Events)
  /\ title \in {"program", "file", "connection"} /\ doc \in {"empty", "file"}

(***************************************************************************)
(* The polling thread, which uses the cache object, has ended before       *)
(* TazDlg::Disconnect has deleted it, and its std::thread is joined before *)
(* it is deleted: all this unless a connection was given up while it was   *)
(* being established.  slot_connected may then create the thread between   *)
(* the join and the delete of SicsCache::disconnect.                       *)
(***************************************************************************)
PollerOwned ==
  /\ threads \subseteq {cache}
  /\ aborted => hasty

(***************************************************************************)
(* A crystal that was loaded stays until the user asks for a new one or a  *)
(* connection is established: TazDlg::Connected clears m_strCurFile and    *)
(* m_vecAtoms, and a "connected" of the connection that Load has closed is *)
(* the only one that comes after Load.                                     *)
(***************************************************************************)
CrystalKept ==
  [][doc = "file" /\ doc' = "empty"
       => \/ next = "new" /\ main = "closed"
          \/ Head(events).conn = cache
          \/ tardy]_netvars

(***************************************************************************)
(* Disconnecting ends, also while the server does not answer: no wait of   *)
(* SicsCache::disconnect is for ever, unless a connection was given up     *)
(* while it was being established (slot_connected may set m_bPollerActive  *)
(* again after disconnect() has cleared it).                               *)
(***************************************************************************)
DisconnectEnds == (main # "loop") ~> (main = "loop" \/ hasty)

-----------------------------------------------------------------------------
(* The inductive invariant of Threads_proofs.                              *)

\* The GUI thread is in the cache's disconnect().
Closing == main \in {"flag", "join", "delete", "close"}

\* There is a cache while it is closed and while its client is used; the second
\* time, the client is not.
CacheInv ==
  /\ tcp # "off" => cache # None
  /\ Closing => cache # None
  /\ Closing /\ round = 2 => tcp = "off"
  /\ main = "closed" => cache = None
  /\ main # "loop" /\ next \in Systems => nconn < MaxConn

\* Only SicsCache has a polling thread: the one that m_pthPoller points to.
PollerInv ==
  /\ sys = "nicos" => poller = None /\ tcp # "slot"
                      /\ main \notin {"flag", "join", "delete"}
  /\ poller \in {None, cache}
  /\ threads \subseteq {poller}
  /\ joined => poller \notin threads
  /\ main = "close" /\ round = 2 => poller = None

\* It is not joined when it is deleted only if slot_connected ran meanwhile.
HastyInv ==
  /\ Closing /\ tcp \in {"connecting", "slot"} => hasty
  /\ main = "delete" /\ poller # None /\ ~joined => hasty
  /\ aborted => hasty

\* A "connected" that is underway is of this connection.
EventsInv ==
  \A i \in 1 .. Len(events) :
    events[i].ev = "connected" => events[i].conn = cache \/ tardy

NetIInv == NetTypeOK /\ CacheInv /\ PollerInv /\ HastyInv /\ EventsInv

=============================================================================
