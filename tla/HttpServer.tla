----------------------------- MODULE HttpServer -----------------------------
(***************************************************************************)
(* The two event-driven servers src/http.c and src/http_csv.c: the accept, *)
(* read and write handlers they register with the ae event loop.           *)
(*                                                                         *)
(* ae, anet, the kernel and the database are not part of the sources; they *)
(* are modelled from the calls of the handlers.  ae keeps a table of the   *)
(* events registered for each descriptor, the kernel keeps its own: close  *)
(* empties the kernel's entry and not the table's.  With kqueue the two    *)
(* events of a descriptor are reported apart and in any order; with epoll  *)
(* they are reported together, the read handler runs first, and a          *)
(* registration is changed, not added, when the table has an entry.  A     *)
(* descriptor is readable while there is something unread and, from the    *)
(* moment its client has closed or shut down its side, for ever: read()    *)
(* returns 0 then, which the handler does not look at.                     *)
(***************************************************************************)
EXTENDS Naturals, FiniteSets, FiniteSetsExt

CONSTANTS
    Clients,    \* each connects once
    Fds,        \* descriptors left for connections: numbers, lowest free first
    Chunks,     \* how many reads the longest request of a client takes
    Backend,    \* "kqueue" or "epoll"
    Streaming,  \* TRUE for http_csv.c, which answers row by row
    DbMayFail,  \* may a statement fail?
    None

Listener == 0       \* ipfd

ASSUME FdsAssumption == Fds \subseteq Nat \ {Listener} /\ IsFiniteSet(Fds)
ASSUME ChunksAssumption == Chunks \in [Clients -> Nat \ {0}]
ASSUME BackendAssumption == Backend \in {"kqueue", "epoll"}
ASSUME NoneAssumption == None \notin Clients /\ None \notin Fds
ASSUME ModeAssumption == Streaming \in BOOLEAN /\ DbMayFail \in BOOLEAN

VARIABLES
    server,     \* "running", "exited" by exit(1), or the assertion that failed
    fired,      \* events reported by the last poll and not yet processed
    busy,       \* the event being processed, or None
    mask,       \* ae's table: events registered for each descriptor
    filter,     \* the kernel's own registrations
    owner,      \* the client at the other end of an open descriptor, or None
    conn,       \* "new", "waiting" to be accepted, "open" or "closed"
    sent,       \* chunks each client has sent
    shut,       \* has the client shut down its sending side, or closed?
    read,       \* chunks of each client that were read
    answer      \* what was written to each client: "none" or "some" of an answer

clientVars == <<conn, sent, shut, read, answer>>
loopVars == <<fired, busy>>
tableVars == <<mask, filter, owner>>
vars == <<server, loopVars, tableVars, clientVars>>

Init ==
    /\ server = "running" /\ fired = {} /\ busy = None
    /\ mask = [fd \in Fds |-> {}] /\ filter = [fd \in Fds |-> {}]
    /\ owner = [fd \in Fds |-> None]
    /\ conn = [c \in Clients |-> "new"]
    /\ sent = [c \in Clients |-> 0] /\ shut = [c \in Clients |-> FALSE]
    /\ read = [c \in Clients |-> 0]
    /\ answer = [c \in Clients |-> "none"]

Waiting == {c \in Clients : conn[c] = "waiting"}
FreeFds == {fd \in Fds : owner[fd] = None}

-----------------------------------------------------------------------------
(* Clients.                                                                *)

Connect(c) ==
    /\ conn[c] = "new"
    /\ conn' = [conn EXCEPT ![c] = "waiting"]
    /\ UNCHANGED <<server, loopVars, tableVars, sent, shut, read, answer>>

\* A client may send before it is accepted, and may be sending while the
\* server answers.
Send(c) ==
    /\ conn[c] \in {"waiting", "open"} /\ ~shut[c]
    /\ sent[c] < Chunks[c]
    /\ sent' = [sent EXCEPT ![c] = @ + 1]
    /\ UNCHANGED <<server, loopVars, tableVars, conn, shut, read, answer>>

\* It may close at any time, or only shut down the side it sends on, having sent
\* all of its request, a part of it or nothing.
Shut(c) ==
    /\ conn[c] \in {"waiting", "open"} /\ ~shut[c]
    /\ shut' = [shut EXCEPT ![c] = TRUE]
    /\ UNCHANGED <<server, loopVars, tableVars, conn, sent, read, answer>>

-----------------------------------------------------------------------------
(* The event loop.                                                         *)

HasUnread(fd) == owner[fd] # None /\ sent[owner[fd]] > read[owner[fd]]

Readable(fd) == owner[fd] # None /\ (HasUnread(fd) \/ shut[owner[fd]])

\* A socket is taken to be writable at all times.
ReadyEvents(fd) == {ev \in filter[fd] : ev = "W" \/ Readable(fd)}

Reported(fd) ==
    IF Backend = "kqueue" THEN {[fd |-> fd, ev |-> {e}] : e \in ReadyEvents(fd)}
    ELSE {[fd |-> fd, ev |-> ev] : ev \in {ReadyEvents(fd)} \ {{}}}

Ready ==
    (UNION {Reported(fd) : fd \in Fds})
        \cup {e \in {[fd |-> Listener, ev |-> {"R"}]} : Waiting # {}}

\* The loop sleeps until something is ready.
Poll ==
    /\ server = "running" /\ busy = None /\ fired = {}
    /\ Ready # {}
    /\ fired' = Ready
    /\ UNCHANGED <<server, busy, tableVars, clientVars>>

\* The next event; todo holds the handlers it may still call.
Begin ==
    /\ server = "running" /\ busy = None
    /\ \E e \in fired :
          /\ busy' = [fd |-> e.fd, ev |-> e.ev, todo |-> e.ev]
          /\ fired' = fired \ {e}
    /\ UNCHANGED <<server, tableVars, clientVars>>

\* ae looks the handlers up in its table when it is about to call them.
Wanted(ev) ==
    /\ server = "running"
    /\ busy # None
    /\ IF busy.fd = Listener THEN ev \in busy.todo
       ELSE ev \in busy.todo \cap mask[busy.fd]

EndEvent ==
    /\ busy # None
    /\ ~Wanted("R") /\ ~Wanted("W")
    /\ server = "running"
    /\ busy' = None
    /\ UNCHANGED <<server, fired, tableVars, clientVars>>

\* Can aeCreateFileEvent register an event for fd, which is open or not?
CanAdd(fd, open) ==
    /\ open
    /\ Backend = "epoll" => (mask[fd] = {} <=> filter[fd] = {})

-----------------------------------------------------------------------------
(* The handlers.                                                           *)

AcceptInterestBoth == {"R", "W"}   \* mutant: answers without waiting

\* The events acceptTcpHandler registers a connection for.
AcceptInterest == {"R"}

\* acceptTcpHandler.  Without a free descriptor accept fails, and the -1 it
\* returns is registered like any other number.
Accept ==
    /\ Wanted("R") /\ busy.fd = Listener
    /\ FreeFds # {}
    /\ CanAdd(Min(FreeFds), TRUE)
    /\ \E c \in Waiting :
          /\ conn' = [conn EXCEPT ![c] = "open"]
          /\ owner' = [owner EXCEPT ![Min(FreeFds)] = c]
    /\ mask' = [mask EXCEPT ![Min(FreeFds)] = @ \cup AcceptInterest]
    /\ filter' = [filter EXCEPT ![Min(FreeFds)] = @ \cup AcceptInterest]
    /\ busy' = [busy EXCEPT !.todo = {}]
    /\ UNCHANGED <<server, fired, sent, shut, read, answer>>

AcceptAsserts ==
    /\ Wanted("R") /\ busy.fd = Listener
    /\ ~ (FreeFds # {} /\ CanAdd(Min(FreeFds), TRUE))
    /\ server' = "assert in acceptTcpHandler"
    /\ UNCHANGED <<loopVars, tableVars, clientVars>>

\* What read() takes from the socket: a chunk, or nothing at its end and where
\* nothing has arrived.
ReadFrom(fd) ==
    IF HasUnread(fd) THEN [read EXCEPT ![owner[fd]] = @ + 1] ELSE read

ReadInterestAgain == {"R"}   \* mutant: waits for more instead

\* The events readFromClient registers in addition.
ReadInterest == {"W"}

\* readFromClient: the result of read() is not looked at, and the descriptor
\* stays registered for reading.
Read ==
    /\ Wanted("R") /\ busy.fd # Listener
    /\ read' = ReadFrom(busy.fd)
    /\ CanAdd(busy.fd, owner[busy.fd] # None)
    /\ mask' = [mask EXCEPT ![busy.fd] = @ \cup ReadInterest]
    /\ filter' = [filter EXCEPT ![busy.fd] = @ \cup ReadInterest]
    /\ busy' = [busy EXCEPT !.todo = @ \ {"R"}]
    /\ UNCHANGED <<server, fired, owner, conn, sent, shut, answer>>

ReadAsserts ==
    /\ Wanted("R") /\ busy.fd # Listener
    /\ ~CanAdd(busy.fd, owner[busy.fd] # None)
    /\ read' = ReadFrom(busy.fd)
    /\ server' = "assert in readFromClient"
    /\ UNCHANGED <<loopVars, tableVars, conn, sent, shut, answer>>

UnmaskNothing(fd, ev) == mask   \* mutant: aeDeleteFileEvent is not called

\* aeDeleteFileEvent is given the mask of the event that fired, not the mask
\* of what is registered.
Unmask(fd, ev) == [mask EXCEPT ![fd] = @ \ ev]

KeptOpen(fd) == owner   \* mutant: close is forgotten

Closed(fd) == [owner EXCEPT ![fd] = None]

\* writeToClient: the select, the answer, of which write() may take any part,
\* and the end of the connection.
Write ==
    /\ Wanted("W") /\ ~Wanted("R")
    /\ answer' = [answer EXCEPT ![owner[busy.fd]] = "some"]
    /\ conn' = [conn EXCEPT ![owner[busy.fd]] = "closed"]
    /\ mask' = Unmask(busy.fd, busy.ev)
    /\ filter' = [filter EXCEPT ![busy.fd] = {}]
    /\ owner' = Closed(busy.fd)
    /\ busy' = [busy EXCEPT !.todo = {}]
    /\ UNCHANGED <<server, fired, sent, shut, read>>

\* What has been written when a statement fails: http_csv.c has already written
\* the header, and maybe some rows.
BeforeFailure == IF Streaming THEN "some" ELSE "none"

\* A statement of writeToClient fails: exit(1).
DbFails ==
    /\ DbMayFail
    /\ Wanted("W") /\ ~Wanted("R")
    /\ answer' = [answer EXCEPT ![owner[busy.fd]] = BeforeFailure]
    /\ server' = "exited"
    /\ UNCHANGED <<loopVars, tableVars, conn, sent, shut, read>>

-----------------------------------------------------------------------------

ServerStep ==
    \/ Poll \/ Begin \/ EndEvent
    \/ Accept \/ AcceptAsserts \/ Read \/ ReadAsserts \/ Write \/ DbFails

Next == ServerStep \/ \E c \in Clients : Connect(c) \/ Send(c) \/ Shut(c)

\* The loop never stops of its own accord.  Nothing is assumed of the clients.
Spec == Init /\ [][Next]_vars /\ WF_vars(ServerStep)

-----------------------------------------------------------------------------
(* Properties.                                                             *)

(* A write handler is registered only for a descriptor that is open: although
   close leaves ae's table as it is, what it leaves there is never a write
   event, so no answer is written to a closed descriptor or to a connection
   that took over its number. *)
WritableIsOpen ==
    \A fd \in Fds : "W" \in mask[fd] => owner[fd] # None /\ "W" \in filter[fd]

(* A closed connection that gave the server more to read after its first read,
   a second chunk or the end of what it sent.  Under kqueue the read event for it
   may be processed after the write event that closes its descriptor. *)
Trailing(d) == conn[d] = "closed" /\ (sent[d] > 1 \/ shut[d])

(* A client is answered only after something of its request was read or because
   it has closed; or, under kqueue, because the read event of another connection
   that trailed its request was taken for one of the connection that was given
   its descriptor in the same round. *)
AnswerAfterRequest ==
    \A c \in Clients : answer[c] # "none" =>
        \/ read[c] > 0
        \/ shut[c]
        \/ Backend = "kqueue" /\ \E d \in Clients \ {c} : Trailing(d)

(* Every open connection has one descriptor, and no descriptor outlives its
   connection. *)
DescriptorsFollowConnections ==
    \A c \in Clients :
        conn[c] = "open" <=> \E fd \in Fds : /\ owner[fd] = c
                                             /\ \A g \in Fds \ {fd} : owner[g] # c

(* The read handler's assertion fails only under kqueue and after a connection
   that trailed its request; the accept handler's only for want of a descriptor
   or, under epoll, after any connection that has been closed. *)
AssertionsHold ==
    /\ server = "assert in readFromClient" =>
           Backend = "kqueue" /\ \E d \in Clients : Trailing(d)
    /\ server = "assert in acceptTcpHandler" =>
           FreeFds = {} \/ (Backend = "epoll" /\ \E d \in Clients : conn[d] = "closed")

(* A client that has sent any part of a request, or has closed, gets an answer,
   unless a statement or an assertion fails and ends the server. *)
EveryoneIsAnswered ==
    \A c \in Clients :
        sent[c] > 0 \/ shut[c] ~> answer[c] # "none" \/ server # "running"

(* assert(ret != AE_ERR), http.c:88. *)
ReadAssertHolds == server # "assert in readFromClient"

(* assert(ret != AE_ERR), http.c:108. *)
AcceptAssertHolds == server # "assert in acceptTcpHandler"
=============================================================================
