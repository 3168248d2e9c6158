-------------------------- MODULE HttpServerProofs --------------------------
(***************************************************************************)
(* Theorems about HttpServer.tla, for any number of clients, descriptors   *)
(* and chunks and for both kinds of ae.  Entries that close leaves in ae's *)
(* table are harmless as far as writing goes, because a descriptor is      *)
(* closed only by the write event whose entry is deleted with it.          *)
(***************************************************************************)
EXTENDS HttpServer, FiniteSetTheorems, WellFoundedInduction, TLAPS

-----------------------------------------------------------------------------
(* The invariant, in parts.                                                *)

Directions == {"R", "W"}
Numbers == Fds \cup {Listener}

(* What the variables are. *)
Typed ==
    /\ fired \subseteq [fd : Numbers, ev : SUBSET Directions]
    /\ busy # None => busy \in [fd : Numbers, ev : SUBSET Directions, todo : SUBSET Directions]
    /\ mask \in [Fds -> SUBSET Directions]
    /\ filter \in [Fds -> SUBSET Directions]
    /\ owner \in [Fds -> Clients \cup {None}]
    /\ conn \in [Clients -> {"new", "waiting", "open", "closed"}]
    /\ sent \in [Clients -> Nat]
    /\ shut \in [Clients -> BOOLEAN]
    /\ read \in [Clients -> Nat]
    /\ answer \in [Clients -> {"none", "some"}]

(* The listener is only read, and a handler that may still be called is one of
   the event's: it is in the mask that aeDeleteFileEvent will be given. *)
EventsSound ==
    /\ \A e \in fired : e.fd = Listener => e.ev = {"R"}
    /\ busy # None => /\ busy.todo \subseteq busy.ev
                      /\ busy.fd = Listener => busy.ev = {"R"}

(* Descriptors and open connections belong to each other, one to one. *)
Linked ==
    /\ \A fd \in Fds : owner[fd] # None => conn[owner[fd]] = "open"
    /\ \A fd, g \in Fds : owner[fd] = owner[g] /\ owner[fd] # None => fd = g
    /\ \A c \in Clients : conn[c] = "open" => \E fd \in Fds : owner[fd] = c

IInv == Typed /\ EventsSound /\ WritableIsOpen /\ Linked

-----------------------------------------------------------------------------
(* What the handlers work on.                                              *)

LEMMA LeastOfNat ==
  ASSUME NEW S \in SUBSET Nat, S # {}
  PROVE  Min(S) \in S
  <1>1. PICK x \in S : \A y \in S : ~ (<<y, x>> \in OpToRel(<, Nat))
    BY WFMin, NatLessThanWellFounded
  <1>2. \A y \in S : ~ (y < x)
    BY <1>1 DEF OpToRel
  <1>3. \A y \in S : x =< y
    BY <1>2
  <1>. QED
    BY <1>3 DEF Min

(* The descriptor accept returns is a free one. *)
LEMMA LowestIsFree ==
  ASSUME FreeFds # {}
  PROVE  Min(FreeFds) \in Fds /\ owner[Min(FreeFds)] = None
  <1>1. FreeFds \in SUBSET Nat
    BY FdsAssumption DEF FreeFds
  <1>. QED
    BY <1>1, LeastOfNat DEF FreeFds

(* A handler that is called for a connection is called for a descriptor that
   has the event in ae's table. *)
LEMMA WantedIsMasked ==
  ASSUME Typed, NEW ev, Wanted(ev), busy.fd # Listener
  PROVE  busy.fd \in Fds /\ ev \in mask[busy.fd] /\ ev \in busy.todo
  BY DEF Typed, Wanted, Numbers

(* A write handler is never called for the listener. *)
LEMMA WriterIsConnection ==
  ASSUME Typed, EventsSound, Wanted("W")
  PROVE  /\ busy.fd \in Fds
         /\ "W" \in mask[busy.fd]
         /\ "W" \in busy.ev
  <1>1. busy.todo \subseteq busy.ev /\ "W" \in busy.todo
    BY DEF EventsSound, Wanted
  <1>2. busy.fd # Listener
    BY <1>1 DEF EventsSound, Wanted
  <1>. QED
    BY <1>1, <1>2, WantedIsMasked

(* What a poll reports is typed, and of the listener only reads. *)
LEMMA ReadySound ==
  ASSUME Typed, NEW e \in Ready
  PROVE  /\ e \in [fd : Numbers, ev : SUBSET Directions]
         /\ e.fd = Listener => e.ev = {"R"}
  <1>1. CASE e \in {x \in {[fd |-> Listener, ev |-> {"R"}]} : Waiting # {}}
    BY <1>1 DEF Numbers, Directions
  <1>2. CASE e \in UNION {Reported(fd) : fd \in Fds}
    <2>1. PICK fd \in Fds : e \in Reported(fd)
      BY <1>2
    <2>2. ReadyEvents(fd) \subseteq Directions
      BY DEF ReadyEvents, Typed
    <2>3. \E ev \in SUBSET Directions : e = [fd |-> fd, ev |-> ev]
      <3>1. CASE Backend = "kqueue"
        BY <2>1, <2>2, <3>1 DEF Reported
      <3>2. CASE Backend # "kqueue"
        BY <2>1, <2>2, <3>2 DEF Reported
      <3>. QED
        BY <3>1, <3>2
    <2>4. fd # Listener
      BY FdsAssumption
    <2>. QED
      BY <2>3, <2>4 DEF Numbers
  <1>. QED
    BY <1>1, <1>2 DEF Ready

-----------------------------------------------------------------------------
(* Every step preserves each part.                                         *)

LEMMA InvInit == Init => IInv
  BY DEF Init, IInv, Typed, EventsSound, WritableIsOpen, Linked

LEMMA TypedStep ==
  ASSUME IInv, [Next]_vars
  PROVE  Typed'
  <1>. USE DEF IInv
  <1>0. AcceptInterest \subseteq Directions /\ ReadInterest \subseteq Directions
    BY DEF AcceptInterest, ReadInterest, Directions
  <1>1. CASE Poll
    BY <1>1, ReadySound DEF Poll, Typed, tableVars, clientVars
  <1>2. CASE Begin
    <2>1. PICK e \in fired : busy' = [fd |-> e.fd, ev |-> e.ev, todo |-> e.ev]
                             /\ fired' = fired \ {e}
      BY <1>2 DEF Begin
    <2>2. e.fd \in Numbers /\ e.ev \in SUBSET Directions
      BY DEF Typed
    <2>. QED
      BY <1>2, <2>1, <2>2 DEF Begin, Typed, tableVars, clientVars
  <1>3. CASE EndEvent
    BY <1>3 DEF EndEvent, Typed, tableVars, clientVars
  <1>4. CASE Accept
    <2>1. busy # None /\ busy' = [busy EXCEPT !.todo = {}]
      BY <1>4 DEF Accept, Wanted
    <2>2. busy' \in [fd : Numbers, ev : SUBSET Directions, todo : SUBSET Directions]
      BY <2>1 DEF Typed
    <2>3. Min(FreeFds) \in Fds
      BY <1>4, LowestIsFree DEF Accept
    <2>4. /\ mask' \in [Fds -> SUBSET Directions]
          /\ filter' \in [Fds -> SUBSET Directions]
      BY <1>0, <1>4, <2>3 DEF Accept, Typed
    <2>5. PICK c \in Clients : conn' = [conn EXCEPT ![c] = "open"]
                               /\ owner' = [owner EXCEPT ![Min(FreeFds)] = c]
      BY <1>4 DEF Accept, Waiting
    <2>6. /\ conn' \in [Clients -> {"new", "waiting", "open", "closed"}]
          /\ owner' \in [Fds -> Clients \cup {None}]
      BY <2>3, <2>5 DEF Typed
    <2>. QED
      BY <1>4, <2>2, <2>4, <2>6 DEF Accept, Typed
  <1>5. CASE AcceptAsserts
    BY <1>5 DEF AcceptAsserts, Typed, loopVars, tableVars, clientVars
  <1>6. read' = ReadFrom(busy.fd) /\ owner[busy.fd] \in Clients \cup {None}
          => read' \in [Clients -> Nat]
    BY DEF ReadFrom, HasUnread, Typed
  <1>7. CASE Read
    <2>1. busy # None /\ busy' = [busy EXCEPT !.todo = @ \ {"R"}]
      BY <1>7 DEF Read, Wanted
    <2>2. busy' \in [fd : Numbers, ev : SUBSET Directions, todo : SUBSET Directions]
      BY <2>1 DEF Typed
    <2>3. busy.fd \in Fds
      BY <1>7, WantedIsMasked DEF Read
    <2>4. /\ mask' \in [Fds -> SUBSET Directions]
          /\ filter' \in [Fds -> SUBSET Directions]
      BY <1>0, <1>7, <2>3 DEF Read, Typed
    <2>5. read' \in [Clients -> Nat]
      BY <1>6, <1>7, <2>3 DEF Read, Typed
    <2>. QED
      BY <1>7, <2>2, <2>4, <2>5 DEF Read, Typed
  <1>8. CASE ReadAsserts
    <2>1. busy.fd \in Fds
      BY <1>8, WantedIsMasked DEF ReadAsserts
    <2>2. read' \in [Clients -> Nat]
      BY <1>6, <1>8, <2>1 DEF ReadAsserts, Typed
    <2>. QED
      BY <1>8, <2>2 DEF ReadAsserts, Typed, loopVars, tableVars
  <1>9. CASE Write
    <2>1. busy # None /\ busy' = [busy EXCEPT !.todo = {}]
      BY <1>9 DEF Write, Wanted
    <2>2. busy' \in [fd : Numbers, ev : SUBSET Directions, todo : SUBSET Directions]
      BY <2>1 DEF Typed
    <2>3. /\ mask' \in [Fds -> SUBSET Directions]
          /\ filter' \in [Fds -> SUBSET Directions]
          /\ owner' \in [Fds -> Clients \cup {None}]
      BY <1>9 DEF Write, Unmask, Closed, Typed
    <2>4. /\ answer' \in [Clients -> {"none", "some"}]
          /\ conn' \in [Clients -> {"new", "waiting", "open", "closed"}]
      BY <1>9 DEF Write, Typed
    <2>. QED
      BY <1>9, <2>2, <2>3, <2>4 DEF Write, Typed
  <1>10. CASE DbFails
    BY <1>10 DEF DbFails, BeforeFailure, Typed, loopVars, tableVars
  <1>11. ASSUME NEW c \in Clients, Connect(c) \/ Send(c) \/ Shut(c)
         PROVE  Typed'
    <2>1. CASE Connect(c)
      BY <2>1 DEF Connect, Typed, loopVars, tableVars
    <2>2. CASE Send(c)
      BY <2>2 DEF Send, Typed, loopVars, tableVars
    <2>3. CASE Shut(c)
      BY <2>3 DEF Shut, Typed, loopVars, tableVars
    <2>. QED
      BY <1>11, <2>1, <2>2, <2>3
  <1>12. CASE UNCHANGED vars
    BY <1>12 DEF Typed, vars, loopVars, tableVars, clientVars
  <1>. QED
    BY <1>1, <1>2, <1>3, <1>4, <1>5, <1>7, <1>8, <1>9, <1>10, <1>11, <1>12
       DEF Next, ServerStep

LEMMA EventsStep ==
  ASSUME IInv, [Next]_vars
  PROVE  EventsSound'
  <1>. USE DEF IInv, EventsSound
  <1>1. CASE Poll
    BY <1>1, ReadySound DEF Poll
  <1>2. CASE Begin
    BY <1>2 DEF Begin
  <1>3. CASE Accept \/ Read \/ Write
    <2>1. busy # None /\ busy.fd \in Numbers
      BY <1>3 DEF Accept, Read, Write, Wanted, Typed
    <2>2. \E todo \in SUBSET busy.todo : busy' = [busy EXCEPT !.todo = todo]
      BY <1>3 DEF Accept, Read, Write
    <2>3. PICK fd, ev, old : busy = [fd |-> fd, ev |-> ev, todo |-> old]
      BY <2>1 DEF Typed
    <2>4. \E todo \in SUBSET old : busy' = [fd |-> fd, ev |-> ev, todo |-> todo]
      BY <2>2, <2>3
    <2>5. old \subseteq ev /\ (fd = Listener => ev = {"R"}) /\ fired' = fired
      BY <1>3, <2>1, <2>3 DEF Accept, Read, Write
    <2>. QED
      BY <2>4, <2>5
  <1>4. CASE EndEvent \/ AcceptAsserts \/ ReadAsserts \/ DbFails
    BY <1>4 DEF EndEvent, AcceptAsserts, ReadAsserts, DbFails, loopVars
  <1>5. ASSUME NEW c \in Clients, Connect(c) \/ Send(c) \/ Shut(c)
        PROVE  EventsSound'
    BY <1>5 DEF Connect, Send, Shut, loopVars
  <1>6. CASE UNCHANGED vars
    BY <1>6 DEF vars, loopVars
  <1>. QED
    BY <1>1, <1>2, <1>3, <1>4, <1>5, <1>6 DEF Next, ServerStep

LEMMA WritableStep ==
  ASSUME IInv, [Next]_vars
  PROVE  WritableIsOpen'
  <1>. USE DEF IInv, WritableIsOpen
  <1>1. CASE Accept
    <2>1. PICK fd \in Fds : fd = Min(FreeFds) /\ owner[fd] = None
      BY <1>1, LowestIsFree DEF Accept
    <2>2. PICK c \in Clients : owner' = [owner EXCEPT ![fd] = c]
      BY <1>1, <2>1 DEF Accept, Waiting
    <2>3. /\ mask' = [mask EXCEPT ![fd] = @ \cup {"R"}]
          /\ filter' = [filter EXCEPT ![fd] = @ \cup {"R"}]
      BY <1>1, <2>1 DEF Accept, AcceptInterest
    <2>4. "W" \notin mask'[fd]
      BY <2>1, <2>3 DEF Typed
    <2>5. \A g \in Fds \ {fd} :
            mask'[g] = mask[g] /\ filter'[g] = filter[g] /\ owner'[g] = owner[g]
      BY <2>2, <2>3 DEF Typed
    <2>. QED
      BY <2>4, <2>5
  <1>2. CASE Read
    <2>1. PICK fd \in Fds : fd = busy.fd
      BY <1>2, WantedIsMasked DEF Read
    <2>2. owner[fd] # None /\ owner' = owner
      BY <1>2, <2>1 DEF Read, CanAdd
    <2>3. /\ mask' = [mask EXCEPT ![fd] = @ \cup {"W"}]
          /\ filter' = [filter EXCEPT ![fd] = @ \cup {"W"}]
      BY <1>2, <2>1 DEF Read, ReadInterest
    <2>4. "W" \in filter'[fd]
      BY <2>3 DEF Typed
    <2>5. \A g \in Fds \ {fd} : mask'[g] = mask[g] /\ filter'[g] = filter[g]
      BY <2>3 DEF Typed
    <2>. QED
      BY <2>2, <2>4, <2>5
  <1>3. CASE Write
    <2>1. PICK fd \in Fds : fd = busy.fd /\ "W" \in busy.ev
      BY <1>3, WriterIsConnection DEF Write
    <2>2. /\ mask' = [mask EXCEPT ![fd] = @ \ busy.ev]
          /\ filter' = [filter EXCEPT ![fd] = {}]
          /\ owner' = [owner EXCEPT ![fd] = None]
      BY <1>3, <2>1 DEF Write, Unmask, Closed
    <2>3. "W" \notin mask'[fd]
      BY <2>1, <2>2 DEF Typed
    <2>4. \A g \in Fds \ {fd} :
            mask'[g] = mask[g] /\ filter'[g] = filter[g] /\ owner'[g] = owner[g]
      BY <2>2 DEF Typed
    <2>. QED
      BY <2>3, <2>4
  <1>4. CASE Poll \/ Begin \/ EndEvent \/ AcceptAsserts \/ ReadAsserts \/ DbFails
    BY <1>4 DEF Poll, Begin, EndEvent, AcceptAsserts, ReadAsserts, DbFails, tableVars
  <1>5. ASSUME NEW c \in Clients, Connect(c) \/ Send(c) \/ Shut(c)
        PROVE  WritableIsOpen'
    BY <1>5 DEF Connect, Send, Shut, tableVars
  <1>6. CASE UNCHANGED vars
    BY <1>6 DEF vars, tableVars
  <1>. QED
    BY <1>1, <1>2, <1>3, <1>4, <1>5, <1>6 DEF Next, ServerStep

LEMMA LinkedStep ==
  ASSUME IInv, [Next]_vars
  PROVE  Linked'
  <1>. USE DEF IInv, Linked
  <1>1. CASE Accept
    <2>1. PICK fd \in Fds : fd = Min(FreeFds) /\ owner[fd] = None
      BY <1>1, LowestIsFree DEF Accept
    <2>2. PICK c \in Clients : /\ conn[c] = "waiting"
                               /\ conn' = [conn EXCEPT ![c] = "open"]
                               /\ owner' = [owner EXCEPT ![fd] = c]
      BY <1>1, <2>1 DEF Accept, Waiting
    <2>3. c # None
      BY NoneAssumption
    <2>4. owner'[fd] = c /\ conn'[c] = "open"
      BY <2>2 DEF Typed
    <2>5. /\ \A g \in Fds \ {fd} : owner'[g] = owner[g] /\ owner[g] # c
          /\ \A d \in Clients \ {c} : conn'[d] = conn[d]
      BY <2>2, <2>3 DEF Typed
    <2>6. \A g \in Fds : owner'[g] # None => conn'[owner'[g]] = "open"
      BY <2>4, <2>5 DEF Typed
    <2>7. \A g, h \in Fds : owner'[g] = owner'[h] /\ owner'[g] # None => g = h
      BY <2>4, <2>5
    <2>8. \A d \in Clients : conn'[d] = "open" => \E g \in Fds : owner'[g] = d
      BY <2>1, <2>3, <2>4, <2>5, NoneAssumption
    <2>. QED
      BY <2>6, <2>7, <2>8
  <1>2. CASE Write
    <2>1. PICK fd \in Fds : fd = busy.fd /\ owner[fd] # None
      BY <1>2, WriterIsConnection DEF Write, WritableIsOpen
    <2>2. PICK c \in Clients : c = owner[fd]
      BY <2>1 DEF Typed
    <2>3. /\ conn' = [conn EXCEPT ![c] = "closed"]
          /\ owner' = [owner EXCEPT ![fd] = None]
      BY <1>2, <2>1, <2>2 DEF Write, Closed
    <2>4. owner'[fd] = None /\ conn'[c] = "closed"
      BY <2>3 DEF Typed
    <2>5. /\ \A g \in Fds \ {fd} : owner'[g] = owner[g] /\ owner[g] # c
          /\ \A d \in Clients \ {c} : conn'[d] = conn[d]
      BY <2>1, <2>2, <2>3 DEF Typed
    <2>6. \A g \in Fds : owner'[g] # None => conn'[owner'[g]] = "open"
      BY <2>4, <2>5 DEF Typed
    <2>7. \A g, h \in Fds : owner'[g] = owner'[h] /\ owner'[g] # None => g = h
      BY <2>4, <2>5
    <2>8. \A d \in Clients : conn'[d] = "open" => \E g \in Fds : owner'[g] = d
      BY <2>2, <2>4, <2>5
    <2>. QED
      BY <2>6, <2>7, <2>8
  <1>3. CASE Poll \/ Begin \/ EndEvent \/ AcceptAsserts \/ Read \/ ReadAsserts \/ DbFails
    BY <1>3 DEF Poll, Begin, EndEvent, AcceptAsserts, Read, ReadAsserts, DbFails,
                tableVars, clientVars
  <1>4. ASSUME NEW c \in Clients, Connect(c)
        PROVE  Linked'
    <2>1. /\ owner' = owner
          /\ \A d \in Clients : conn'[d] = "open" <=> conn[d] = "open"
      BY <1>4 DEF Connect, Typed, tableVars
    <2>. QED
      BY <2>1 DEF Typed
  <1>5. ASSUME NEW c \in Clients, Send(c) \/ Shut(c)
        PROVE  Linked'
    BY <1>5 DEF Send, Shut, tableVars
  <1>6. CASE UNCHANGED vars
    BY <1>6 DEF vars, tableVars, clientVars
  <1>. QED
    BY <1>1, <1>2, <1>3, <1>4, <1>5, <1>6 DEF Next, ServerStep

LEMMA InvStep == IInv /\ [Next]_vars => IInv'
  BY TypedStep, EventsStep, WritableStep, LinkedStep DEF IInv

LEMMA Invariance == Spec => []IInv
  BY InvInit, InvStep, PTL DEF Spec

(* Whatever close leaves in ae's table, whichever ae it is and however many
   connections share the descriptors, a write handler is called only for a
   connection that is open. *)
THEOREM WritesReachConnections == Spec => []WritableIsOpen
  BY Invariance, PTL DEF IInv

(* Every connection that was accepted and not answered has one descriptor, and
   a descriptor that is not free has its connection. *)
THEOREM ConnectionsHaveDescriptors == Spec => []DescriptorsFollowConnections
  <1>1. IInv => DescriptorsFollowConnections
    <2>. SUFFICES ASSUME IInv, NEW c \in Clients
                  PROVE  conn[c] = "open" <=>
                           \E fd \in Fds : /\ owner[fd] = c
                                           /\ \A g \in Fds \ {fd} : owner[g] # c
      BY DEF DescriptorsFollowConnections
    <2>. c # None
      BY NoneAssumption
    <2>. QED
      BY DEF IInv, Linked
  <1>. QED
    BY <1>1, Invariance, PTL

-----------------------------------------------------------------------------
(* Answers and assertions.  Read events that close has left in ae's table do *)
(* harm only under kqueue, where the read event of a connection may be       *)
(* processed after the write event that closes it: the connection then       *)
(* trailed its request, and this can be seen for ever.                       *)

(* A connection that trailed its request has been closed under kqueue. *)
Trailed == Backend = "kqueue" /\ \E d \in Clients : Trailing(d)

(* An open connection is registered for reading; of one that was closed the
   kernel knows nothing any more, whatever ae's table says. *)
Registered ==
    /\ \A fd \in Fds : owner[fd] # None => "R" \in mask[fd] /\ "R" \in filter[fd]
    /\ \A fd \in Fds : owner[fd] = None => filter[fd] = {}
    /\ \A fd \in Fds : owner[fd] = None =>
          mask[fd] = {} \/ \E d \in Clients : conn[d] = "closed"

(* Events of one descriptor that are processed one after the other are of
   different kinds, and only kqueue reports such. *)
Apart(e, f) == e.ev \cap f.ev = {} /\ Backend = "kqueue"

EventsApart ==
    /\ \A e, f \in fired : e.fd = f.fd => e = f \/ Apart(e, f)
    /\ busy # None => \A e \in fired : e.fd = busy.fd => Apart(e, busy)

(* A read event of a connection, reported or begun, finds something to read. *)
ReadsAreDue ==
    server = "running" =>
        /\ \A e \in fired : "R" \in e.ev /\ e.fd # Listener => Readable(e.fd) \/ Trailed
        /\ busy # None /\ "R" \in busy.todo /\ busy.fd # Listener =>
              Readable(busy.fd) \/ Trailed

(* A connection that is to be answered was read, or is at its end. *)
WritesAreDue ==
    \A fd \in Fds : "W" \in mask[fd] =>
        read[owner[fd]] > 0 \/ shut[owner[fd]] \/ Trailed

FullInv ==
    /\ IInv
    /\ Registered /\ EventsApart /\ ReadsAreDue /\ WritesAreDue
    /\ AnswerAfterRequest /\ AssertionsHold

LEMMA FullInit == Init => FullInv
  <1>. SUFFICES ASSUME Init PROVE FullInv
    OBVIOUS
  <1>1. IInv
    BY InvInit
  <1>. QED
    BY <1>1 DEF Init, FullInv, Registered, EventsApart, ReadsAreDue, WritesAreDue,
                AnswerAfterRequest, AssertionsHold

-----------------------------------------------------------------------------
(* What stays as it is.                                                    *)

(* Nothing happens to a connection that was closed. *)
LEMMA ClosedStays ==
  ASSUME IInv, [Next]_vars, NEW d \in Clients, conn[d] = "closed"
  PROVE  conn'[d] = "closed" /\ sent'[d] = sent[d] /\ shut'[d] = shut[d]
  <1>. USE DEF IInv, Typed
  <1>1. CASE Accept
    BY <1>1 DEF Accept, Waiting
  <1>2. CASE Write
    BY <1>2 DEF Write
  <1>3. CASE Poll \/ Begin \/ EndEvent \/ AcceptAsserts \/ Read \/ ReadAsserts \/ DbFails
    BY <1>3 DEF Poll, Begin, EndEvent, AcceptAsserts, Read, ReadAsserts, DbFails, clientVars
  <1>4. ASSUME NEW c \in Clients, Connect(c)
        PROVE  conn'[d] = "closed" /\ sent'[d] = sent[d] /\ shut'[d] = shut[d]
    BY <1>4 DEF Connect
  <1>5. ASSUME NEW c \in Clients, Send(c) \/ Shut(c)
        PROVE  conn'[d] = "closed" /\ sent'[d] = sent[d] /\ shut'[d] = shut[d]
    <2>1. c # d
      BY <1>5 DEF Send, Shut
    <2>. QED
      BY <1>5, <2>1 DEF Send, Shut
  <1>6. CASE UNCHANGED vars
    BY <1>6 DEF vars, clientVars
  <1>. QED
    BY <1>1, <1>2, <1>3, <1>4, <1>5, <1>6 DEF Next, ServerStep

LEMMA TrailedStays ==
  ASSUME IInv, [Next]_vars, Trailed
  PROVE  Trailed'
  <1>1. PICK d \in Clients : Trailing(d) /\ Backend = "kqueue"
    BY DEF Trailed
  <1>2. Trailing(d)'
    BY <1>1, ClosedStays DEF Trailing
  <1>. QED
    BY <1>1, <1>2 DEF Trailed

(* No client takes back what it sent. *)
LEMMA ClientsGoOn ==
  ASSUME IInv, [Next]_vars, NEW c \in Clients
  PROVE  /\ sent'[c] >= sent[c] /\ sent'[c] \in Nat /\ sent[c] \in Nat
         /\ shut[c] => shut'[c]
         /\ read'[c] >= read[c] /\ read'[c] \in Nat /\ read[c] \in Nat
  <1>. USE DEF IInv, Typed
  <1>0. sent[c] \in Nat /\ read[c] \in Nat
    OBVIOUS
  <1>1. ASSUME NEW d \in Clients, Send(d)
        PROVE  /\ sent'[c] \in {sent[c], sent[c] + 1}
               /\ read' = read /\ shut' = shut
    BY <1>1 DEF Send
  <1>2. ASSUME NEW d \in Clients, Shut(d)
        PROVE  sent' = sent /\ read' = read /\ (shut[c] => shut'[c])
    BY <1>2 DEF Shut
  <1>3. CASE Read \/ ReadAsserts
    <2>1. read' = ReadFrom(busy.fd) /\ sent' = sent /\ shut' = shut
      BY <1>3 DEF Read, ReadAsserts
    <2>2. busy.fd \in Fds
      BY <1>3, WantedIsMasked DEF Read, ReadAsserts
    <2>3. read'[c] \in {read[c], read[c] + 1}
      BY <2>1, <2>2 DEF ReadFrom
    <2>4. shut[c] => shut'[c]
      BY <2>1
    <2>5. sent'[c] = sent[c]
      BY <2>1
    <2>. QED
      BY <1>0, <2>3, <2>4, <2>5
  <1>4. CASE Poll \/ Begin \/ EndEvent \/ Accept \/ AcceptAsserts \/ Write \/ DbFails
    <2>1. sent' = sent /\ read' = read /\ shut' = shut
      BY <1>4 DEF Poll, Begin, EndEvent, Accept, AcceptAsserts, Write, DbFails, clientVars
    <2>2. shut[c] => shut'[c]
      BY <2>1
    <2>3. sent'[c] = sent[c] /\ read'[c] = read[c]
      BY <2>1
    <2>. QED
      BY <1>0, <2>2, <2>3
  <1>5. ASSUME NEW d \in Clients, Connect(d)
        PROVE  sent' = sent /\ read' = read /\ shut' = shut
    BY <1>5 DEF Connect
  <1>6. CASE UNCHANGED vars
    BY <1>0, <1>6 DEF vars, clientVars
  <1>. QED
    BY <1>0, <1>1, <1>2, <1>3, <1>4, <1>5, <1>6 DEF Next, ServerStep

(* A descriptor stays readable until it is read or closed. *)
LEMMA ReadableStays ==
  ASSUME IInv, [Next]_vars, NEW fd \in Fds, Readable(fd), owner'[fd] = owner[fd],
         read'[owner[fd]] = read[owner[fd]]
  PROVE  Readable(fd)'
  <1>1. owner[fd] \in Clients
    BY DEF Readable, IInv, Typed
  <1>. QED
    BY <1>1, ClientsGoOn DEF Readable, HasUnread

-----------------------------------------------------------------------------
(* Every step preserves each part.                                         *)

LEMMA RegisteredStep ==
  ASSUME FullInv, [Next]_vars
  PROVE  Registered'
  <1>. USE DEF FullInv, Registered
  <1>0. (\E d \in Clients : conn[d] = "closed") => \E d \in Clients : conn'[d] = "closed"
    BY ClosedStays
  <1>1. CASE Accept
    <2>1. PICK fd \in Fds : fd = Min(FreeFds) /\ owner[fd] = None
      BY <1>1, LowestIsFree DEF Accept
    <2>2. PICK c \in Clients : owner' = [owner EXCEPT ![fd] = c]
      BY <1>1, <2>1 DEF Accept, Waiting
    <2>3. /\ "R" \in mask'[fd] /\ "R" \in filter'[fd] /\ owner'[fd] # None
          /\ \A g \in Fds \ {fd} :
               mask'[g] = mask[g] /\ filter'[g] = filter[g] /\ owner'[g] = owner[g]
      BY <1>1, <2>1, <2>2, NoneAssumption DEF Accept, AcceptInterest, IInv, Typed
    <2>. QED
      BY <1>0, <2>3
  <1>2. CASE Read
    <2>1. PICK fd \in Fds : fd = busy.fd /\ owner[fd] # None
      BY <1>2, WantedIsMasked DEF Read, CanAdd, IInv
    <2>2. /\ owner' = owner
          /\ "R" \in mask'[fd] /\ "R" \in filter'[fd]
          /\ \A g \in Fds \ {fd} : mask'[g] = mask[g] /\ filter'[g] = filter[g]
      BY <1>2, <2>1 DEF Read, ReadInterest, IInv, Typed
    <2>. QED
      BY <1>0, <2>1, <2>2
  <1>3. CASE Write
    <2>1. PICK fd \in Fds : fd = busy.fd /\ owner[fd] \in Clients
      BY <1>3, WriterIsConnection DEF Write, IInv, WritableIsOpen, Typed
    <2>2. /\ owner'[fd] = None /\ filter'[fd] = {}
          /\ conn'[owner[fd]] = "closed"
          /\ \A g \in Fds \ {fd} :
               mask'[g] = mask[g] /\ filter'[g] = filter[g] /\ owner'[g] = owner[g]
      BY <1>3, <2>1 DEF Write, Unmask, Closed, IInv, Typed
    <2>. QED
      BY <1>0, <2>1, <2>2
  <1>4. CASE Poll \/ Begin \/ EndEvent \/ AcceptAsserts \/ ReadAsserts \/ DbFails
    BY <1>0, <1>4 DEF Poll, Begin, EndEvent, AcceptAsserts, ReadAsserts, DbFails, tableVars
  <1>5. ASSUME NEW c \in Clients, Connect(c) \/ Send(c) \/ Shut(c)
        PROVE  Registered'
    BY <1>0, <1>5 DEF Connect, Send, Shut, tableVars
  <1>6. CASE UNCHANGED vars
    BY <1>0, <1>6 DEF vars, tableVars
  <1>. QED
    BY <1>1, <1>2, <1>3, <1>4, <1>5, <1>6 DEF Next, ServerStep

(* Events of one poll. *)
LEMMA ReadyIsDue ==
  ASSUME Typed, NEW e \in Ready
  PROVE  /\ "R" \in e.ev /\ e.fd # Listener => Readable(e.fd)
         /\ \A f \in Ready : e.fd = f.fd => e = f \/ Apart(e, f)
  <1>1. \A fd \in Fds : "R" \in ReadyEvents(fd) => Readable(fd)
    BY DEF ReadyEvents
  <1>2. ASSUME NEW x \in Ready
        PROVE  \/ x = [fd |-> Listener, ev |-> {"R"}]
               \/ \E fd \in Fds : x \in Reported(fd)
    BY <1>2 DEF Ready
  <1>3. \A fd \in Fds : fd # Listener
    BY FdsAssumption
  <1>4. ASSUME NEW x, NEW fd \in Fds, x \in Reported(fd)
        PROVE  /\ x.fd = fd
               /\ x.ev \subseteq ReadyEvents(fd)
               /\ IF Backend = "kqueue" THEN \E k \in ReadyEvents(fd) : x = [fd |-> fd, ev |-> {k}]
                  ELSE x = [fd |-> fd, ev |-> ReadyEvents(fd)]
    <2>1. CASE Backend = "kqueue"
      BY <1>4, <2>1 DEF Reported
    <2>2. CASE Backend # "kqueue"
      BY <1>4, <2>2 DEF Reported
    <2>. QED
      BY <2>1, <2>2
  <1>5. "R" \in e.ev /\ e.fd # Listener => Readable(e.fd)
    BY <1>1, <1>2, <1>4
  <1>6. ASSUME NEW f \in Ready, e.fd = f.fd
        PROVE  e = f \/ Apart(e, f)
    <2>1. CASE e.fd = Listener
      BY <1>2, <1>3, <1>4, <1>6, <2>1
    <2>2. CASE e.fd # Listener
      <3>1. PICK fd \in Fds : e \in Reported(fd) /\ f \in Reported(fd)
        BY <1>2, <1>4, <1>6, <2>2
      <3>2. CASE Backend = "kqueue"
        <4>1. PICK k, l \in ReadyEvents(fd) : e = [fd |-> fd, ev |-> {k}]
                                              /\ f = [fd |-> fd, ev |-> {l}]
          BY <1>4, <3>1, <3>2
        <4>. QED
          BY <3>2, <4>1 DEF Apart
      <3>3. CASE Backend # "kqueue"
        BY <1>4, <3>1, <3>3
      <3>. QED
        BY <3>2, <3>3
    <2>. QED
      BY <2>1, <2>2
  <1>. QED
    BY <1>5, <1>6

(* A handler that has been called leaves the event it was called for. *)
LEMMA BusyKept ==
  ASSUME IInv, busy # None, NEW todo, busy' = [busy EXCEPT !.todo = todo]
  PROVE  busy'.fd = busy.fd /\ busy'.ev = busy.ev /\ busy'.todo = todo
  BY DEF IInv, Typed

LEMMA EventsApartStep ==
  ASSUME FullInv, [Next]_vars
  PROVE  EventsApart'
  <1>. USE DEF FullInv, EventsApart, Apart
  <1>1. CASE Poll
    <2>1. fired' = Ready /\ busy' = None
      BY <1>1 DEF Poll
    <2>2. \A e, f \in Ready : e.fd = f.fd => e = f \/ Apart(e, f)
      BY ReadyIsDue DEF IInv
    <2>. QED
      BY <2>1, <2>2
  <1>2. CASE Begin
    <2>1. PICK e \in fired : busy' = [fd |-> e.fd, ev |-> e.ev, todo |-> e.ev]
                             /\ fired' = fired \ {e}
      BY <1>2 DEF Begin
    <2>2. busy'.fd = e.fd /\ busy'.ev = e.ev
      BY <2>1
    <2>. QED
      BY <2>1, <2>2
  <1>3. CASE Accept \/ Read \/ Write
    <2>1. busy # None /\ fired' = fired
      BY <1>3 DEF Accept, Read, Write, Wanted
    <2>2. \E todo : busy' = [busy EXCEPT !.todo = todo]
      BY <1>3 DEF Accept, Read, Write
    <2>3. busy'.fd = busy.fd /\ busy'.ev = busy.ev
      BY <2>1, <2>2, BusyKept
    <2>. QED
      BY <2>1, <2>3
  <1>4. CASE EndEvent \/ AcceptAsserts \/ ReadAsserts \/ DbFails
    BY <1>4 DEF EndEvent, AcceptAsserts, ReadAsserts, DbFails, loopVars
  <1>5. ASSUME NEW c \in Clients, Connect(c) \/ Send(c) \/ Shut(c)
        PROVE  EventsApart'
    BY <1>5 DEF Connect, Send, Shut, loopVars
  <1>6. CASE UNCHANGED vars
    BY <1>6 DEF vars, loopVars
  <1>. QED
    BY <1>1, <1>2, <1>3, <1>4, <1>5, <1>6 DEF Next, ServerStep

LEMMA ReadsAreDueStep ==
  ASSUME FullInv, [Next]_vars
  PROVE  ReadsAreDue'
  <1>. USE DEF FullInv, ReadsAreDue
  <1>0. Trailed => Trailed'
    BY TrailedStays
  <1>1. CASE Poll
    <2>1. fired' = Ready /\ busy' = None
      BY <1>1 DEF Poll
    <2>2. \A e \in Ready : e.fd \in Numbers
      BY ReadySound DEF IInv
    <2>3. ASSUME NEW e \in Ready, "R" \in e.ev, e.fd # Listener
          PROVE  Readable(e.fd)'
      <3>1. Readable(e.fd)
        BY <2>3, ReadyIsDue DEF IInv
      <3>. QED
        BY <1>1, <3>1 DEF Poll, Readable, HasUnread, tableVars, clientVars
    <2>. QED
      BY <2>1, <2>3
  <1>2. CASE Begin
    <2>1. PICK e \in fired : busy' = [fd |-> e.fd, ev |-> e.ev, todo |-> e.ev]
                             /\ fired' = fired \ {e}
      BY <1>2 DEF Begin
    <2>2. busy'.fd = e.fd /\ busy'.todo = e.ev
      BY <2>1
    <2>3. server = "running" /\ \A f : Readable(f) => Readable(f)'
      BY <1>2 DEF Begin, Readable, HasUnread, tableVars, clientVars
    <2>. QED
      BY <1>0, <2>1, <2>2, <2>3
  <1>3. CASE EndEvent
    <2>1. server = "running" /\ \A f : Readable(f) => Readable(f)'
      BY <1>3 DEF EndEvent, Readable, HasUnread, tableVars, clientVars
    <2>. QED
      BY <1>0, <1>3, <2>1 DEF EndEvent
  <1>4. CASE AcceptAsserts \/ ReadAsserts \/ DbFails
    BY <1>4 DEF AcceptAsserts, ReadAsserts, DbFails
  <1>5. CASE Accept
    <2>1. PICK fd \in Fds : fd = Min(FreeFds) /\ owner[fd] = None
      BY <1>5, LowestIsFree DEF Accept
    <2>2. /\ \A g \in Fds \ {fd} : owner'[g] = owner[g]
          /\ fired' = fired /\ read' = read
          /\ server = "running" /\ busy # None /\ busy' = [busy EXCEPT !.todo = {}]
      BY <1>5, <2>1 DEF Accept, Wanted, IInv, Typed
    <2>3. busy'.todo = {}
      BY <2>2, BusyKept
    <2>4. ASSUME NEW e \in fired, "R" \in e.ev, e.fd # Listener, Readable(e.fd)
          PROVE  Readable(e.fd)'
      <3>1. e.fd \in Fds \ {fd}
        BY <2>1, <2>4 DEF Readable, IInv, Typed, Numbers
      <3>. QED
        BY <2>2, <2>4, <3>1, ReadableStays
    <2>. QED
      BY <1>0, <2>2, <2>3, <2>4
  <1>6. CASE Read
    <2>1. PICK fd \in Fds : fd = busy.fd /\ owner[fd] \in Clients
      BY <1>6, WantedIsMasked DEF Read, CanAdd, IInv, Typed
    <2>2. /\ server = "running" /\ fired' = fired /\ owner' = owner
          /\ busy # None /\ "R" \in busy.todo
          /\ busy' = [busy EXCEPT !.todo = busy.todo \ {"R"}]
      BY <1>6 DEF Read, Wanted
    <2>3. "R" \notin busy'.todo
      BY <2>2, BusyKept
    <2>4. \A d \in Clients \ {owner[fd]} : read'[d] = read[d]
      BY <1>6, <2>1 DEF Read, ReadFrom, IInv, Typed
    <2>5. ASSUME NEW e \in fired, "R" \in e.ev, e.fd # Listener, Readable(e.fd)
          PROVE  Readable(e.fd)'
      <3>1. e.fd # fd
        BY <2>1, <2>2, <2>5 DEF EventsApart, Apart, IInv, EventsSound
      <3>2. e.fd \in Fds /\ owner[e.fd] \in Clients
        BY <2>5 DEF Readable, IInv, Typed, Numbers
      <3>3. owner[e.fd] # owner[fd]
        BY <2>1, <3>1, <3>2, NoneAssumption DEF IInv, Linked
      <3>. QED
        BY <2>2, <2>4, <2>5, <3>2, <3>3, ReadableStays DEF IInv
    <2>. QED
      BY <1>0, <2>2, <2>3, <2>5
  <1>7. CASE Write
    <2>1. PICK fd \in Fds : fd = busy.fd /\ "W" \in mask[fd] /\ owner[fd] \in Clients
      BY <1>7, WriterIsConnection DEF Write, IInv, WritableIsOpen, Typed
    <2>2. /\ \A g \in Fds \ {fd} : owner'[g] = owner[g]
          /\ fired' = fired /\ UNCHANGED <<sent, shut, read>>
          /\ conn' = [conn EXCEPT ![owner[fd]] = "closed"]
          /\ server = "running" /\ busy # None /\ busy' = [busy EXCEPT !.todo = {}]
      BY <1>7, <2>1 DEF Write, Closed, Wanted, IInv, Typed
    <2>3. busy'.todo = {}
      BY <2>2, BusyKept
    <2>4. ASSUME NEW e \in fired, "R" \in e.ev, e.fd # Listener, Readable(e.fd)
          PROVE  Readable(e.fd)' \/ Trailed'
      <3>1. CASE e.fd # fd
        <4>1. e.fd \in Fds \ {fd}
          BY <2>4, <3>1 DEF IInv, Typed, Numbers
        <4>. QED
          BY <2>2, <2>4, <4>1, ReadableStays
      <3>2. CASE e.fd = fd
        <4>1. Backend = "kqueue"
          BY <2>1, <2>2, <3>2 DEF EventsApart, Apart
        <4>2. PICK c \in Clients : c = owner[fd]
          BY <2>1
        <4>3. read[c] > 0 \/ shut[c] \/ Trailed
          BY <2>1, <4>2 DEF WritesAreDue
        <4>4. sent[c] > read[c] \/ shut[c]
          BY <2>4, <3>2, <4>2 DEF Readable, HasUnread
        <4>5. sent[c] > 1 \/ shut[c] \/ Trailed
          BY <4>3, <4>4 DEF IInv, Typed
        <4>6. conn'[c] = "closed" /\ sent' = sent /\ shut' = shut
          BY <2>2, <4>2 DEF IInv, Typed
        <4>. QED
          BY <1>0, <4>1, <4>5, <4>6 DEF Trailed, Trailing
      <3>. QED
        BY <3>1, <3>2
    <2>. QED
      BY <1>0, <2>2, <2>3, <2>4
  <1>8. ASSUME NEW c \in Clients, Connect(c) \/ Send(c) \/ Shut(c)
        PROVE  ReadsAreDue'
    <2>1. UNCHANGED <<owner, read, fired, busy, server>>
      BY <1>8 DEF Connect, Send, Shut, tableVars, loopVars
    <2>2. \A fd \in Fds : Readable(fd) => Readable(fd)'
      BY <2>1, ReadableStays
    <2>3. /\ \A e \in fired : e.fd # Listener => e.fd \in Fds
          /\ busy # None /\ busy.fd # Listener => busy.fd \in Fds
      BY DEF IInv, Typed, Numbers
    <2>. QED
      BY <1>0, <2>1, <2>2, <2>3
  <1>9. CASE UNCHANGED vars
    <2>1. /\ UNCHANGED <<server, fired, busy>>
          /\ \A f : Readable(f) => Readable(f)'
      BY <1>9 DEF vars, loopVars, tableVars, clientVars, Readable, HasUnread
    <2>. QED
      BY <1>0, <2>1
  <1>. QED
    BY <1>1, <1>2, <1>3, <1>4, <1>5, <1>6, <1>7, <1>8, <1>9 DEF Next, ServerStep

LEMMA WritesAreDueStep ==
  ASSUME FullInv, [Next]_vars
  PROVE  WritesAreDue'
  <1>. USE DEF FullInv, WritesAreDue
  <1>0. Trailed => Trailed'
    BY TrailedStays
  <1>1. ASSUME NEW g \in Fds, "W" \in mask[g], owner'[g] = owner[g]
        PROVE  read'[owner'[g]] > 0 \/ shut'[owner'[g]] \/ Trailed'
    <2>1. PICK c \in Clients : c = owner[g]
      BY <1>1 DEF IInv, WritableIsOpen, Typed
    <2>2. read[c] > 0 \/ shut[c] \/ Trailed
      BY <1>1, <2>1
    <2>3. read[c] > 0 => read'[c] > 0
      BY ClientsGoOn
    <2>4. shut[c] => shut'[c]
      BY ClientsGoOn
    <2>. QED
      BY <1>0, <1>1, <2>1, <2>2, <2>3, <2>4
  <1>2. CASE Accept
    <2>1. PICK fd \in Fds : fd = Min(FreeFds) /\ owner[fd] = None
      BY <1>2, LowestIsFree DEF Accept
    <2>2. /\ "W" \notin mask'[fd]
          /\ \A g \in Fds \ {fd} : mask'[g] = mask[g] /\ owner'[g] = owner[g]
      BY <1>2, <2>1 DEF Accept, AcceptInterest, IInv, WritableIsOpen, Typed
    <2>. QED
      BY <1>1, <2>2
  <1>3. CASE Read
    <2>1. PICK fd \in Fds : fd = busy.fd /\ owner[fd] \in Clients
      BY <1>3, WantedIsMasked DEF Read, CanAdd, IInv, Typed
    <2>2. /\ owner' = owner
          /\ \A g \in Fds \ {fd} : mask'[g] = mask[g]
      BY <1>3, <2>1 DEF Read, IInv, Typed
    <2>3. Readable(fd) \/ Trailed
      BY <1>3, <2>1 DEF ReadsAreDue, Read, Wanted
    <2>4. CASE HasUnread(fd)
      <3>1. read' = [read EXCEPT ![owner[fd]] = @ + 1]
        BY <1>3, <2>1, <2>4 DEF Read, ReadFrom
      <3>2. read'[owner[fd]] > 0
        BY <2>1, <3>1 DEF IInv, Typed
      <3>. QED
        BY <1>1, <2>2, <3>2
    <2>5. CASE shut[owner[fd]]
      <3>1. shut' = shut
        BY <1>3 DEF Read
      <3>. QED
        BY <1>1, <2>2, <2>5, <3>1
    <2>. QED
      BY <1>0, <1>1, <2>2, <2>3, <2>4, <2>5 DEF Readable
  <1>4. CASE Write
    <2>1. PICK fd \in Fds : fd = busy.fd /\ "W" \in busy.ev
      BY <1>4, WriterIsConnection DEF Write, IInv
    <2>2. /\ "W" \notin mask'[fd]
          /\ \A g \in Fds \ {fd} : mask'[g] = mask[g] /\ owner'[g] = owner[g]
      BY <1>4, <2>1 DEF Write, Unmask, Closed, IInv, Typed
    <2>. QED
      BY <1>1, <2>2
  <1>5. CASE Poll \/ Begin \/ EndEvent \/ AcceptAsserts \/ ReadAsserts \/ DbFails
    BY <1>1, <1>5 DEF Poll, Begin, EndEvent, AcceptAsserts, ReadAsserts, DbFails, tableVars
  <1>6. ASSUME NEW c \in Clients, Connect(c) \/ Send(c) \/ Shut(c)
        PROVE  WritesAreDue'
    BY <1>1, <1>6 DEF Connect, Send, Shut, tableVars
  <1>7. CASE UNCHANGED vars
    BY <1>1, <1>7 DEF vars, tableVars
  <1>. QED
    BY <1>2, <1>3, <1>4, <1>5, <1>6, <1>7 DEF Next, ServerStep

LEMMA AnswerStep ==
  ASSUME FullInv, [Next]_vars
  PROVE  AnswerAfterRequest'
  <1>. USE DEF FullInv, AnswerAfterRequest
  <1>1. ASSUME NEW c \in Clients,
               \/ read[c] > 0
               \/ shut[c]
               \/ Backend = "kqueue" /\ \E d \in Clients \ {c} : Trailing(d)
        PROVE  \/ read'[c] > 0
               \/ shut'[c]
               \/ Backend = "kqueue" /\ \E d \in Clients \ {c} : Trailing(d)'
    <2>1. CASE read[c] > 0
      BY <2>1, ClientsGoOn
    <2>2. CASE shut[c]
      BY <2>2, ClientsGoOn
    <2>3. ASSUME NEW d \in Clients \ {c}, Trailing(d)
          PROVE  Trailing(d)'
      BY <2>3, ClosedStays DEF Trailing
    <2>. QED
      BY <1>1, <2>1, <2>2, <2>3
  <1>2. CASE Write \/ DbFails
    <2>1. PICK fd \in Fds : fd = busy.fd /\ "W" \in mask[fd]
      BY <1>2, WriterIsConnection DEF Write, DbFails, IInv
    <2>2. PICK c \in Clients : c = owner[fd]
      BY <2>1 DEF IInv, WritableIsOpen, Typed
    <2>3. \A d \in Clients \ {c} : answer'[d] = answer[d]
      BY <1>2, <2>1, <2>2 DEF Write, DbFails, IInv, Typed
    <2>4. conn[c] = "open"
      BY <2>2, NoneAssumption DEF IInv, Linked
    <2>5. read[c] > 0 \/ shut[c] \/ Trailed
      BY <2>1, <2>2 DEF WritesAreDue
    <2>6. ~Trailing(c)
      BY <2>4 DEF Trailing
    <2>. QED
      BY <1>1, <2>3, <2>5, <2>6 DEF Trailed
  <1>3. CASE Read \/ ReadAsserts
    BY <1>1, <1>3 DEF Read, ReadAsserts
  <1>4. CASE Poll \/ Begin \/ EndEvent \/ Accept \/ AcceptAsserts
    BY <1>1, <1>4 DEF Poll, Begin, EndEvent, Accept, AcceptAsserts, clientVars
  <1>5. ASSUME NEW c \in Clients, Connect(c) \/ Send(c) \/ Shut(c)
        PROVE  AnswerAfterRequest'
    BY <1>1, <1>5 DEF Connect, Send, Shut
  <1>6. CASE UNCHANGED vars
    BY <1>1, <1>6 DEF vars, clientVars
  <1>. QED
    BY <1>2, <1>3, <1>4, <1>5, <1>6 DEF Next, ServerStep

LEMMA AssertionsStep ==
  ASSUME FullInv, [Next]_vars
  PROVE  AssertionsHold'
  <1>. USE DEF FullInv
  <1>1. CASE ReadAsserts
    <2>1. /\ Wanted("R") /\ busy.fd # Listener
          /\ ~CanAdd(busy.fd, owner[busy.fd] # None)
          /\ server' = "assert in readFromClient"
      BY <1>1 DEF ReadAsserts
    <2>2. busy.fd \in Fds
      BY <2>1, WantedIsMasked DEF IInv
    <2>3. owner[busy.fd] = None
      BY <2>1, <2>2 DEF CanAdd, Registered
    <2>4. Trailed
      BY <2>1, <2>3 DEF ReadsAreDue, Wanted, Readable
    <2>5. Trailed'
      BY <2>4, TrailedStays
    <2>. QED
      BY <2>1, <2>5 DEF AssertionsHold, Trailed
  <1>2. CASE AcceptAsserts
    <2>1. FreeFds = {} \/ (Backend = "epoll" /\ \E d \in Clients : conn[d] = "closed")
      <3>1. CASE FreeFds = {}
        BY <3>1
      <3>2. CASE FreeFds # {}
        <4>1. PICK fd \in Fds : fd = Min(FreeFds) /\ owner[fd] = None
          BY <3>2, LowestIsFree
        <4>2. Backend = "epoll" /\ ~ (mask[fd] = {} <=> filter[fd] = {})
          BY <1>2, <3>2, <4>1 DEF AcceptAsserts, CanAdd
        <4>. QED
          BY <4>1, <4>2 DEF Registered
      <3>. QED
        BY <3>1, <3>2
    <2>2. FreeFds' = FreeFds /\ conn' = conn
      BY <1>2 DEF AcceptAsserts, FreeFds, tableVars, clientVars
    <2>. QED
      BY <1>2, <2>1, <2>2 DEF AcceptAsserts, AssertionsHold
  <1>3. CASE Poll \/ Begin \/ EndEvent \/ Accept \/ Read \/ Write \/ DbFails
    BY <1>3 DEF Poll, Begin, EndEvent, Accept, Read, Write, DbFails, Wanted, AssertionsHold
  <1>4. ASSUME server' = server, owner' = owner
        PROVE  AssertionsHold'
    <2>1. FreeFds' = FreeFds
      BY <1>4 DEF FreeFds
    <2>2. (\E d \in Clients : conn[d] = "closed") => \E d \in Clients : conn'[d] = "closed"
      BY ClosedStays
    <2>3. (\E d \in Clients : Trailing(d)) => \E d \in Clients : Trailing(d)'
      BY ClosedStays DEF Trailing
    <2>. QED
      BY <1>4, <2>1, <2>2, <2>3 DEF AssertionsHold
  <1>5. ASSUME NEW c \in Clients, Connect(c) \/ Send(c) \/ Shut(c)
        PROVE  AssertionsHold'
    BY <1>4, <1>5 DEF Connect, Send, Shut, tableVars
  <1>6. CASE UNCHANGED vars
    BY <1>4, <1>6 DEF vars, tableVars
  <1>. QED
    BY <1>1, <1>2, <1>3, <1>5, <1>6 DEF Next, ServerStep

LEMMA FullInvariance == Spec => []FullInv
  <1>1. FullInv /\ [Next]_vars => FullInv'
    BY InvStep, RegisteredStep, EventsApartStep, ReadsAreDueStep, WritesAreDueStep,
       AnswerStep, AssertionsStep DEF FullInv
  <1>. QED
    BY FullInit, <1>1, PTL DEF Spec

(* Whoever is answered was read or is at its end; with epoll always, and with
   kqueue unless a connection that trailed its request was closed before. *)
THEOREM AnswersFollowRequests == Spec => []AnswerAfterRequest
  BY FullInvariance, PTL DEF FullInv

(* However many clients and descriptors there are: with epoll the assertion of
   the read handler never fails, with kqueue only after a connection that
   trailed its request; with kqueue that of the accept handler fails only when
   there is no descriptor left. *)
THEOREM HandlersDoNotAssert == Spec => []AssertionsHold
  BY FullInvariance, PTL DEF FullInv
=============================================================================
