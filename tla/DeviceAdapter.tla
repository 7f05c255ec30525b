--------------------------- MODULE DeviceAdapter ---------------------------
(***************************************************************************)
(* NDNDeviceAdapter and the thread that runs it: the raw socket of the     *)
(* device, the socket to gpsd, the two eventfds of the rings, the loop     *)
(* around select, and what happens when one of them fails.  Descriptors    *)
(* are numbers of the process, the lowest free one first, and the other    *)
(* threads of the process open and close theirs in between.                *)
(*                                                                         *)
(* PktExchange models the rings behind the eventfds, LLNomPolicy the       *)
(* policy: here a packet may or may not go on, and a deadline may or may   *)
(* not be pending.                                                         *)
(***************************************************************************)
EXTENDS LocationService

CONSTANTS
    TableSize,    \* bound: descriptors the process may have
    MaxFailures,  \* bound: failures of the raw socket or of its device
    MapFiles,     \* the map files the node may have
    Reports       \* what gpsd may send

ASSUME AdapterAssumption ==
    TableSize \in Nat /\ TableSize > 4 /\ MaxFailures \in Nat

\* gpsd sends coordinates of the globe, or a report without any.
ASSUME ReportAssumption ==
    \A r \in Reports :
        /\ r.kind \in {"other", "cut", "fix"}
        /\ r.kind = "fix" => /\ r.at \in [lat : Int, lon : Int]
                             /\ CoordinateInRange(r.at) \/ r.at = NoFix

\* The lines of the two files; a coordinate out of range is not made.
ASSUME MapAssumption ==
    \A files \in MapFiles :
        /\ files.found \in BOOLEAN
        /\ files.nodes \in Seq([id : STRING, lat : Int, lon : Int])
        /\ files.edges \in Seq([from : STRING, to : STRING])
        /\ \A i \in DOMAIN files.nodes :
              NodeRead(files.nodes[i]) => CoordinateInRange(files.nodes[i])

Number == 0 .. TableSize - 1
None == -1
Owner == {"free", "std", "incoming", "outgoing", "raw", "gpsd", "other"}

\* param->incomingEventFd and param->outgoingEventFd.
incomingEventFd == 1
outgoingEventFd == 2

VARIABLES
    pc,        \* where the device thread is: see Stage
    fds,       \* the descriptor table
    raw,       \* the NdnRawSocket: number, bound to a device, destination set
    gpsdSocket,
    maxfd,
    ready,     \* what the last select reported
    loc,       \* locationService
    failures,  \* failures of the raw socket so far
    replaced,  \* history: the raw socket has been replaced since start()
    refused,   \* history: the last request to gpsd could not be sent
    restarted, \* history: a second adapter has been made
    strayed    \* history: a foreign descriptor has been read, written or closed

vars == <<pc, fds, raw, gpsdSocket, maxfd, ready, loc, failures, replaced, refused,
          restarted, strayed>>

(***************************************************************************)
(* "create": making the raw socket.  "dial", "greet": connecting to gpsd   *)
(* and waiting for its first line, in the constructor; "redial", "regreet" *)
(* in the loop.  "start": entering start().  "select".  "expired",         *)
(* "network", "daemon", "gps": the branches after select.  "dead": start() *)
(* has returned.  "exited": the thread is over.  "crashed": the process.   *)
(***************************************************************************)
Stage == {"create", "dial", "greet", "start", "redial", "regreet", "select", "expired",
          "network", "daemon", "gps", "dead", "exited", "crashed"}

NoSocket == [fd |-> None, device |-> FALSE, destination |-> FALSE]

Init ==
    /\ pc = "create"
    /\ fds = [n \in Number |-> CASE n = 0 -> "std"
                                 [] n = incomingEventFd -> "incoming"
                                 [] n = outgoingEventFd -> "outgoing"
                                 [] OTHER -> "free"]
    /\ raw = NoSocket
    /\ gpsdSocket = None
    /\ maxfd = None
    /\ ready = {}
    /\ \E files \in MapFiles : loc = NewLocationService(files)
    /\ failures = 0
    /\ replaced = FALSE /\ refused = FALSE /\ restarted = FALSE /\ strayed = FALSE

FreeNumbers == {n \in Number : fds[n] = "free"}
Lowest == CHOOSE n \in FreeNumbers : \A k \in FreeNumbers : n <= k

Opened(owner) == [fds EXCEPT ![Lowest] = owner]
Closed1(table, n) == IF n \in Number THEN [table EXCEPT ![n] = "free"] ELSE table

MayFail == failures < MaxFailures
Fails == MayFail /\ failures' = failures + 1

history == <<replaced, refused, restarted, strayed>>

-----------------------------------------------------------------------------
(* The raw socket *)

\* The constructor binds the socket; setDestination follows.
ReadySocket(n) == [fd |-> n, device |-> TRUE, destination |-> TRUE]

\* The constructor throws before or after socket() has returned a number; the
\* destructor does not run, so the number stays taken.
RawSocketFails ==
    \/ FreeNumbers = {} /\ UNCHANGED <<fds, failures>>
    \/ FreeNumbers # {} /\ Fails /\ fds' = Opened("raw")

Create ==
    /\ pc = "create"
    /\ \/ /\ FreeNumbers # {}
          /\ raw' = ReadySocket(Lowest)
          /\ fds' = Opened("raw")
          /\ pc' = "dial"
          /\ UNCHANGED failures
       \/ /\ RawSocketFails
          /\ pc' = "exited"
          /\ UNCHANGED raw
    /\ UNCHANGED <<gpsdSocket, maxfd, ready, loc, history>>

\* The new socket is made before the old one is closed.
connectToNDNSocket(next) ==
    \/ /\ FreeNumbers # {} /\ MayFail
       /\ failures' = failures + 1
       /\ raw' = ReadySocket(Lowest)
       /\ fds' = Closed1(Opened("raw"), raw.fd)
       /\ replaced' = TRUE
       /\ pc' = next
    \/ /\ MayFail
       /\ RawSocketFails
       /\ pc' = "dead"
       /\ UNCHANGED <<raw, replaced>>

\* A packet handed to the raw socket: it leaves, or the socket is replaced and
\* the packet is lost.
Send(next) ==
    \/ pc' = next /\ UNCHANGED <<raw, fds, failures, replaced>>
    \/ connectToNDNSocket(next)

-----------------------------------------------------------------------------
(* The connection to gpsd *)

\* createGPSSocket up to its read: a number that was obtained stays taken when
\* a later call fails.
Dial(stage, connected, failed, located) ==
    /\ pc = stage
    /\ \/ /\ FreeNumbers = {}
          /\ pc' = failed /\ loc' = located
          /\ UNCHANGED <<fds, gpsdSocket>>
       \/ /\ FreeNumbers # {}
          /\ fds' = Opened("gpsd")
          /\ \/ pc' = failed /\ loc' = located /\ UNCHANGED gpsdSocket
             \/ pc' = connected /\ gpsdSocket' = Lowest /\ UNCHANGED loc
    /\ UNCHANGED <<raw, maxfd, ready, failures, history>>

\* The first line of gpsd, or the end of the stream, which is taken for one.
ReadGreeting(stage, greeted, failed, located) ==
    /\ pc = stage
    /\ \/ pc' = greeted /\ UNCHANGED <<gpsdSocket, loc>>
       \/ pc' = failed /\ gpsdSocket' = None /\ loc' = located
    /\ UNCHANGED <<fds, raw, maxfd, ready, failures, history>>

\* In the constructor a failure is left to the loop.
DialFirst == Dial("dial", "greet", "start", loc)
GreetFirst == ReadGreeting("greet", "start", "start", loc)

Greater(n, m) == IF n > m THEN n ELSE m

\* Mutants: maxfd is not raised; the number of the closed socket is kept.
RequestUnseen(max) ==
    \/ maxfd' = max /\ refused' = FALSE /\ UNCHANGED <<fds, gpsdSocket>>
    \/ /\ maxfd' = max /\ refused' = TRUE
       /\ fds' = Closed1(fds, gpsdSocket) /\ gpsdSocket' = None

RequestKept(max) ==
    \/ maxfd' = Greater(max, gpsdSocket) /\ refused' = FALSE /\ UNCHANGED <<fds, gpsdSocket>>
    \/ /\ maxfd' = max /\ refused' = TRUE
       /\ fds' = Closed1(fds, gpsdSocket) /\ UNCHANGED gpsdSocket

\* The request is sent, or the socket closed.
RequestSent(max) ==
    \/ maxfd' = Greater(max, gpsdSocket) /\ refused' = FALSE /\ UNCHANGED <<fds, gpsdSocket>>
    \/ /\ maxfd' = max /\ refused' = TRUE
       /\ fds' = Closed1(fds, gpsdSocket) /\ gpsdSocket' = None

Start ==
    /\ pc = "start"
    /\ LET max == Greater(raw.fd, outgoingEventFd)
       IN IF gpsdSocket = None
          THEN /\ maxfd' = max /\ refused' = FALSE /\ pc' = "redial"
               /\ UNCHANGED <<fds, gpsdSocket>>
          ELSE /\ RequestSent(max)
               /\ pc' = IF gpsdSocket' = None THEN "redial" ELSE "select"
    /\ UNCHANGED <<raw, ready, loc, failures, replaced, restarted, strayed>>

\* Mutant: the position is kept.
RedialOnly == Dial("redial", "regreet", "select", loc)

\* At the top of the loop a failure to connect invalidates the position.
Redial == Dial("redial", "regreet", "select", noValidData(loc))

\* A connection that breaks while the request is sent does not.
Regreet ==
    /\ pc = "regreet"
    /\ pc' = "select"
    /\ \/ RequestSent(maxfd) /\ UNCHANGED loc
       \/ /\ gpsdSocket' = None /\ loc' = noValidData(loc)
          /\ refused' = FALSE /\ UNCHANGED <<fds, maxfd>>
    /\ UNCHANGED <<raw, ready, failures, replaced, restarted, strayed>>

-----------------------------------------------------------------------------
(* The loop *)

Watched == {raw.fd, outgoingEventFd} \cup (IF gpsdSocket > 0 THEN {gpsdSocket} ELSE {})

\* select looks at the numbers up to maxfd only, and fails on a closed one.
Seen == {n \in Watched : n <= maxfd}

SelectFails ==
    /\ pc = "select"
    /\ \E n \in Seen : fds[n] = "free"
    /\ pc' = "dead"
    /\ UNCHANGED <<fds, raw, gpsdSocket, maxfd, ready, loc, failures, history>>

\* Nothing is ready: a deadline of the policy, or the 2 seconds after which
\* the connection to gpsd is tried again.
Select ==
    /\ pc = "select"
    /\ \A n \in Seen : fds[n] # "free"
    /\ \/ /\ ready' \in SUBSET Seen \ {{}}
          /\ pc' = "network"
       \/ /\ ready' = {}
          /\ \/ pc' = "expired"
             \/ gpsdSocket = None /\ pc' = "network"
    /\ UNCHANGED <<fds, raw, gpsdSocket, maxfd, loc, failures, history>>

\* The timer: a packet of the policy is sent again, or there is none.
Retransmit ==
    /\ pc = "expired"
    /\ Send("gps")
    /\ UNCHANGED <<gpsdSocket, maxfd, ready, loc, refused, restarted, strayed>>

\* An 8 byte read or write on an eventfd of the rings, or on what has its number.
Touch(n, own) == strayed' = (strayed \/ fds[n] # own)

\* writeMessageToNDN announces the packet.  That it fails, on a closed descriptor
\* or a slot in use, is only logged: pktFromNetwork calls it and asks for no more.
GoUp ==
    /\ fds[incomingEventFd] # "free" /\ Touch(incomingEventFd, "incoming")
    /\ pc' = "daemon"
    /\ UNCHANGED <<raw, fds, failures, replaced>>

\* A packet of the network goes up, or it does not.  When the read fails the socket is
\* replaced and what the buffer holds is handled as a packet.
FromNetwork ==
    /\ pc = "network"
    /\ IF raw.fd \notin ready
       THEN pc' = "daemon" /\ UNCHANGED <<raw, fds, failures, replaced, strayed>>
       ELSE \/ GoUp
            \/ pc' = "daemon" /\ UNCHANGED <<raw, fds, failures, replaced, strayed>>
            \/ connectToNDNSocket("daemon") /\ UNCHANGED strayed
    /\ UNCHANGED <<gpsdSocket, maxfd, ready, loc, refused, restarted>>

\* readMessageFromNDN, and the packet is stored, or sent at once.
FromDaemon ==
    /\ pc = "daemon"
    /\ IF outgoingEventFd \notin ready
       THEN pc' = "gps" /\ UNCHANGED <<raw, fds, failures, replaced, strayed>>
       ELSE /\ Touch(outgoingEventFd, "outgoing")
            /\ \/ fds[outgoingEventFd] # "free" /\ Send("gps")
               \/ pc' = "dead" /\ UNCHANGED <<raw, fds, failures, replaced>>
    /\ UNCHANGED <<gpsdSocket, maxfd, ready, loc, refused, restarted>>

\* The end of gpsd's stream closes the socket; the position stays until the
\* attempt to connect at the top of the loop fails.
FromGpsd ==
    /\ pc = "gps"
    /\ LET top(gpsd) == IF gpsd = None THEN "redial" ELSE "select"
       IN IF gpsdSocket \notin ready
          THEN pc' = top(gpsdSocket) /\ UNCHANGED <<fds, gpsdSocket, loc>>
          ELSE \/ /\ fds' = Closed1(fds, gpsdSocket) /\ gpsdSocket' = None
                  /\ pc' = "redial" /\ UNCHANGED loc
               \/ \E report \in Reports :
                     \E new \in updatePosition(loc, report) :
                        /\ IF new = Crash THEN pc' = "crashed" /\ UNCHANGED loc
                           ELSE pc' = "select" /\ loc' = new
                        /\ UNCHANGED <<fds, gpsdSocket>>
    /\ ready' = {}
    /\ UNCHANGED <<raw, maxfd, failures, history>>

\* The adapter is destroyed: the raw socket and the numbers of the eventfds
\* are closed, the socket to gpsd is not.  Five seconds later a new one is made.
Restart ==
    /\ pc = "dead"
    /\ fds' = Closed1(Closed1(Closed1(fds, raw.fd), incomingEventFd), outgoingEventFd)
    /\ strayed' = (strayed \/ fds[incomingEventFd] \notin {"incoming", "free", "raw"}
                           \/ fds[outgoingEventFd] \notin {"outgoing", "free", "raw"})
    /\ pc' = "create"
    /\ raw' = NoSocket /\ gpsdSocket' = None /\ maxfd' = None /\ ready' = {}
    /\ loc' = [loc EXCEPT !.position = NoFix, !.element = Unset]
    /\ replaced' = FALSE /\ refused' = FALSE /\ restarted' = TRUE
    /\ UNCHANGED failures

-----------------------------------------------------------------------------
(* The other threads of the process *)

\* app_connector accepts an application, or a face of it is closed.
OthersOpen ==
    /\ FreeNumbers # {} /\ \A n \in Number : fds[n] # "other"
    /\ fds' = Opened("other")
    /\ UNCHANGED <<pc, raw, gpsdSocket, maxfd, ready, loc, failures, history>>

OthersClose ==
    /\ \E n \in Number : fds[n] = "other" /\ fds' = Closed1(fds, n)
    /\ UNCHANGED <<pc, raw, gpsdSocket, maxfd, ready, loc, failures, history>>

Thread ==
    \/ Create \/ DialFirst \/ GreetFirst \/ Start \/ Redial \/ Regreet
    \/ SelectFails \/ Select \/ Retransmit \/ FromNetwork \/ FromDaemon \/ FromGpsd
    \/ Restart

Next == pc # "crashed" /\ (Thread \/ OthersOpen \/ OthersClose)

Spec == Init /\ [][Next]_vars

-----------------------------------------------------------------------------
TypeOK ==
    /\ pc \in Stage
    /\ fds \in [Number -> Owner]
    /\ raw.fd \in Number \cup {None} /\ {raw.device, raw.destination} \subseteq BOOLEAN
    /\ gpsdSocket \in Number \cup {None}
    /\ maxfd \in Number \cup {None}
    /\ ready \subseteq Number
    /\ CoordinateInRange(loc.position) \/ loc.position = NoFix
    /\ loc.element.kind \in {"unset", "junction", "link"}
    /\ failures \in 0 .. MaxFailures
    /\ {replaced, refused, restarted, strayed} \subseteq BOOLEAN

Running == pc \notin {"create", "dead", "exited", "crashed"}

(***************************************************************************)
(* Until the raw socket is replaced, select sees every descriptor the loop *)
(* depends on: maxfd follows each connection to gpsd, whatever numbers the *)
(* other threads leave free.  (connectToNDNSocket does not update maxfd,   *)
(* and takes its number before it gives the old one back.)                 *)
(***************************************************************************)
WatchesAll == pc = "select" /\ ~replaced => Watched \subseteq Seen

(***************************************************************************)
(* The first adapter of a thread never touches a descriptor of somebody    *)
(* else, keeps one raw socket that is bound and has a destination, and     *)
(* uses a number for gpsd only while it is connected.  (An adapter made    *)
(* after a failure takes its eventfds from numbers that are closed.)       *)
(***************************************************************************)
OwnDescriptors ==
    ~restarted =>
        /\ ~strayed
        /\ fds[incomingEventFd] = "incoming" /\ fds[outgoingEventFd] = "outgoing"
        /\ gpsdSocket # None => fds[gpsdSocket] = "gpsd"
        /\ Running => /\ {n \in Number : fds[n] = "raw"} = {raw.fd}
                      /\ raw.device /\ raw.destination

(***************************************************************************)
(* While the loop waits without gpsd the node claims no position: what it  *)
(* sends carries no coordinates of long ago.  (Unless the connection broke *)
(* between its first line and the request.)                                *)
(***************************************************************************)
PositionIsReported ==
    pc = "select" /\ gpsdSocket = None /\ ~refused => loc.position = NoFix

(***************************************************************************)
(* A node with a position is at the nearest junction of the map if that is *)
(* less than the size of an intersection away, else on the nearest link of *)
(* the junctions around it: the bounded search of the list sorted by       *)
(* latitude misses none.  Excluded is what the code does not handle: the   *)
(* southernmost junction, a position north of them all, equal hash codes,  *)
(* a map that spans zones, and a street from a junction to itself.         *)
(***************************************************************************)
RightPlace ==
    LET c == loc.position
        m == loc.map
        points == {c} \cup DOMAIN m.nodes
    IN  /\ pc = "select" /\ CoordinateInRange(c)
        /\ \E j \in DOMAIN m.nodes : j.lat >= c.lat
        /\ OneZone(points) /\ NoCollision(c, points) /\ NoLoop(m)
        => RightElement(m, c, loc.element)

(***************************************************************************)
(* The map a node has loaded is a graph: a junction lists the links that   *)
(* end at it and no other, and both ends of a link are junctions, whatever *)
(* lines the files repeat, leave out or give in both directions.           *)
(***************************************************************************)
MapClosed == pc = "create" => Closed(loc.map)

=============================================================================
