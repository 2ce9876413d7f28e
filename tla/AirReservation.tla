--------------------------- MODULE AirReservation ---------------------------
(***************************************************************************)
(* The air reservation application (user/tst_air*.c): customers enter an   *)
(* agency of limited capacity, ask a clerk for one of two flights or both, *)
(* and clerks sell tickets until the agency closes.  The master starts     *)
(* everyone after all shared objects and semaphores exist, so a process    *)
(* that is not started yet is one that has not run yet.                    *)
(***************************************************************************)
EXTENDS UserPrograms

CONSTANTS NumCustomers,
          Clerks,            \* three in the code, which writes the number out
          Master,
          AgentCapacity,
          Tickets1, Tickets2,
          Garbage            \* what an array holds before it is written

CustId == 0..(NumCustomers - 1)
Tickets == <<Tickets1, Tickets2>>

AirProcs == Clerks \cup CustId \cup {Master}
\* A name per customer, for as many as the runs have.
CustFinished(i) == <<"cust_finished0", "cust_finished1", "cust_finished2">>[i + 1]
AirSems == {"capacity", "flight1CS", "flight2CS", "custCounterCS", "custQueueCS",
            "clerk", "cust_ready", "custTerminated", "clerkTerminated"}
           \cup {CustFinished(i) : i \in CustId}
FlightCS(f) == IF f = 1 THEN "flight1CS" ELSE "flight2CS"

\* The customers are divided over the three kinds of request.
FlightCustomers == LET third == NumCustomers \div 3
                   IN  <<third, third, NumCustomers - 2 * third>>

AirMem ==
    [isOpened |-> TRUE, waited |-> FALSE, custCounter |-> 0, left |-> FlightCustomers,
     seats |-> Tickets, bookedCounter |-> <<0, 0>>,
     bookedArr |-> [f \in 1..2 |-> [i \in 0..(Tickets[f] - 1) |-> Garbage]],
     queue |-> [i \in 0..NumCustomers |-> Garbage], queue_in |-> 0, queue_out |-> 0,
     custs |-> [i \in CustId |-> [flightType |-> Garbage, booked |-> Garbage]]]

AirSemInit(s) ==
    CASE s = "capacity" -> create_semaphore(AgentCapacity)
      [] s = "clerk" -> create_semaphore(Cardinality(Clerks))
      [] s \in {"flight1CS", "flight2CS", "custCounterCS", "custQueueCS"} -> create_semaphore(1)
      [] OTHER -> create_semaphore(0)

NoLocal == [custId |-> 0, flightType |-> 0, read |-> 0, flights |-> <<>>, i |-> 0]

AirInit ==
    /\ program = "air"
    /\ pc = [p \in AirProcs |-> IF p \in Clerks THEN "k_open"
                                ELSE IF p \in CustId THEN "c_number" ELSE "m_customers"]
    /\ sem = [s \in AirSems |-> AirSemInit(s)]
    /\ mem = AirMem
    /\ local = [p \in AirProcs |-> NoLocal]

-----------------------------------------------------------------------------
(* A customer.  A short critical section is two steps: entering it, and    *)
(* its body with the signal that leaves it.                                *)

\* The section of custCounterCS, where a customer takes a number and draws a
\* request that still has customers to make, then the wait at the door.  The
\* number only tells the customers apart, so they are numbered in the order in
\* which they come to the door after their delays.
customer_takes_number(p) ==
    /\ Goto(p, "c_number", "c_clerk")
    /\ mem.custCounter = p
    /\ \E f \in 1..3 :
          /\ mem.left[f] > 0
          /\ mem' = [mem EXCEPT !.custCounter = @ + 1, !.left[f] = @ - 1]
          /\ local' = [local EXCEPT ![p].custId = mem.custCounter, ![p].flightType = f]
    /\ wait_semaphore(p, "capacity")
    /\ UNCHANGED program

c_clerk(p) == Goto(p, "c_clerk", "c_request") /\ wait_semaphore(p, "clerk") /\ OnlySem
c_request(p) ==
    /\ Goto(p, "c_request", "c_enqueue")
    /\ mem' = [mem EXCEPT !.custs[local[p].custId] =
                  [flightType |-> local[p].flightType, booked |-> FALSE]]
    /\ wait_semaphore(p, "custQueueCS")
    /\ UNCHANGED <<program, local>>
c_enqueue(p) ==
    /\ Goto(p, "c_enqueue", "c_wait")
    /\ mem' = [mem EXCEPT !.queue[mem.queue_in] = local[p].custId, !.queue_in = @ + 1]
    /\ Signal({"custQueueCS", "cust_ready"})
    /\ UNCHANGED <<program, local>>


customer_asks(p) == c_clerk(p) \/ c_request(p) \/ c_enqueue(p)

c_wait(p) == Goto(p, "c_wait", "c_leave") /\ wait_semaphore(p, CustFinished(local[p].custId)) /\ OnlySem
c_leave(p) == Goto(p, "c_leave", "done") /\ Signal({"capacity", "custTerminated"}) /\ OnlySem

customer_leaves(p) == c_wait(p) \/ c_leave(p)

-----------------------------------------------------------------------------
(* A clerk.                                                                *)

k_open(p) == Goto(p, "k_open", IF mem.isOpened THEN "k_ready" ELSE "k_exit") /\ OnlyPc
k_ready(p) == Goto(p, "k_ready", "k_queueCS") /\ wait_semaphore(p, "cust_ready") /\ OnlySem
k_queueCS(p) == Goto(p, "k_queueCS", "k_dequeue") /\ wait_semaphore(p, "custQueueCS") /\ OnlySem

\* Reading past what was written is the failure NoPanic looks for; -1 says
\* that there are no more customers.
k_dequeue(p) ==
    LET id == mem.queue[mem.queue_out]
    IN  /\ Goto(p, "k_dequeue", CASE id = Garbage -> "panic" [] id = -1 -> "k_open" [] OTHER -> "k_type")
        /\ mem' = IF id \in CustId THEN [mem EXCEPT !.queue_out = @ + 1] ELSE mem
        /\ Signal({"custQueueCS"})
        /\ Set(p, "custId", IF id \in CustId THEN id ELSE 0) /\ UNCHANGED program

clerk_dequeues(p) == k_open(p) \/ k_ready(p) \/ k_queueCS(p) \/ k_dequeue(p)

\* The flights of a request, in the order their sections are entered.
Flights(type) == IF type = 3 THEN <<1, 2>> ELSE <<type>>

k_type(p) ==
    LET type == mem.custs[local[p].custId].flightType
    IN  /\ Goto(p, "k_type", IF type = Garbage THEN "panic" ELSE "k_lock")
        /\ local' = [local EXCEPT ![p].flightType = type, ![p].i = 1,
                                  ![p].flights = IF type = Garbage THEN <<>> ELSE Flights(type)]
        /\ OnlyLocal

\* wait_semaphore(flight1CS) and wait_semaphore(flight2CS), the ones asked for.
k_lock(p) ==
    LET l == local[p]
    IN  /\ Goto(p, "k_lock", IF l.i = Len(l.flights) THEN "k_check" ELSE "k_lock")
        /\ wait_semaphore(p, FlightCS(l.flights[l.i]))
        /\ Set(p, "i", IF l.i = Len(l.flights) THEN 1 ELSE l.i + 1)
        /\ UNCHANGED <<program, mem>>

\* Mutation: one flight with room is enough.
k_check_any(p) ==
    LET room == \E i \in DOMAIN local[p].flights : mem.seats[local[p].flights[i]] > 0
    IN  Goto(p, "k_check", IF room THEN "k_book" ELSE "k_unlock")
        /\ Set(p, "read", mem.bookedCounter) /\ OnlyLocal

\* A ticket is sold only if every flight asked for has one.
k_check(p) ==
    LET room == \A i \in DOMAIN local[p].flights : mem.seats[local[p].flights[i]] > 0
    IN  Goto(p, "k_check", IF room THEN "k_book" ELSE "k_unlock")
        /\ Set(p, "read", mem.bookedCounter) /\ OnlyLocal

\* One flight of the request: the counter, the array, the customer.
k_book(p) ==
    LET l == local[p]
        f == l.flights[l.i]
    IN  /\ Goto(p, "k_book", IF l.i = Len(l.flights) THEN "k_unlock" ELSE "k_book")
        /\ mem' = [mem EXCEPT !.seats[f] = @ - 1, !.custs[l.custId].booked = TRUE,
                              !.bookedArr[f] = (l.read[f] :> l.custId) @@ @,
                              !.bookedCounter[f] = l.read[f] + 1]
        /\ Set(p, "i", IF l.i = Len(l.flights) THEN 1 ELSE l.i + 1)
        /\ UNCHANGED <<program, sem>>

k_unlock(p) ==
    Goto(p, "k_unlock", "k_finished") /\ Signal({FlightCS(f) : f \in Range(local[p].flights)}) /\ OnlySem

clerk_books(p) == k_type(p) \/ k_lock(p) \/ k_check(p) \/ k_book(p) \/ k_unlock(p)

\* The customer may leave, and the master look at the semaphores, before the
\* clerk is free again.  The private variables of one round mean nothing in
\* the next.
k_finished(p) ==
    /\ Goto(p, "k_finished", "k_clerk") /\ Signal({CustFinished(local[p].custId)})
    /\ local' = [local EXCEPT ![p] = NoLocal] /\ UNCHANGED <<program, mem>>
k_clerk(p) == Goto(p, "k_clerk", "k_open") /\ Signal({"clerk"}) /\ OnlySem
k_exit(p) == Goto(p, "k_exit", "done") /\ Signal({"clerkTerminated"}) /\ OnlySem

clerk_serves(p) == clerk_dequeues(p) \/ clerk_books(p) \/ k_finished(p) \/ k_clerk(p) \/ k_exit(p)

-----------------------------------------------------------------------------
(* The master.                                                             *)

\* A loop of n steps at one label.
Loop(p, from, to, n) ==
    /\ Goto(p, from, IF local[p].i + 1 = n THEN to ELSE from)
    /\ Set(p, "i", IF local[p].i + 1 = n THEN 0 ELSE local[p].i + 1)

find(arr, val) == \E i \in DOMAIN arr : arr[i] = val

\* What the master reports as a wrong booking.
WrongBooking(id) ==
    LET cust == mem.custs[id]
        in == [f \in 1..2 |-> find(mem.bookedArr[f], id)]
    IN  /\ cust.booked
        /\ CASE cust.flightType = 1 -> ~in[1]
             [] cust.flightType = 2 -> ~in[2]
             [] OTHER -> ~(in[1] /\ in[2])

\* The semaphores it asserts, in the order it does: those that no later step of
\* a clerk can change, the two that the last clerk may not have come to yet,
\* and the rest.
FirstCounts ==
    /\ sem["capacity"].count = AgentCapacity
    /\ \A s \in {"flight1CS", "flight2CS", "custCounterCS", "custQueueCS"} : sem[s].count = 1
ClerksFree == sem["clerk"].count = Cardinality(Clerks)
ClerksWait == sem["cust_ready"].count = -Cardinality(Clerks)
FinalCounts ==
    /\ sem["custTerminated"].count = 0
    /\ \A id \in CustId : sem[CustFinished(id)].count = 0

m_customers(p) ==
    Loop(p, "m_customers", "m_sleep", NumCustomers) /\ wait_semaphore(p, "custTerminated")
    /\ UNCHANGED <<program, mem>>
\* env_sleep(1500).
m_sleep(p) ==
    Goto(p, "m_sleep", "m_check") /\ mem' = [mem EXCEPT !.waited = OthersRest(p)] /\ OnlyMem
m_check(p) ==
    /\ Goto(p, "m_check", IF FirstCounts /\ ~\E id \in CustId : WrongBooking(id)
                          THEN "m_free" ELSE "panic")
    /\ OnlyPc
m_free(p) == Goto(p, "m_free", IF ClerksFree THEN "m_ready" ELSE "late") /\ OnlyPc
m_ready(p) == Goto(p, "m_ready", IF ClerksWait THEN "m_final" ELSE "late") /\ OnlyPc
m_final(p) == Goto(p, "m_final", IF FinalCounts THEN "m_close" ELSE "panic") /\ OnlyPc

master_checks(p) == m_sleep(p) \/ m_check(p) \/ m_free(p) \/ m_ready(p) \/ m_final(p)

m_close(p) ==
    Goto(p, "m_close", "m_last") /\ mem' = [mem EXCEPT !.isOpened = FALSE] /\ OnlyMem
m_last(p) ==
    Goto(p, "m_last", "m_signal") /\ mem' = [mem EXCEPT !.queue[NumCustomers] = -1] /\ OnlyMem
\* Mutation: one clerk too few is told that the agency closes.
m_signal_short(p) ==
    Loop(p, "m_signal", "m_clerks", Cardinality(Clerks) - 1) /\ Signal({"cust_ready"})
    /\ UNCHANGED <<program, mem>>

m_signal(p) ==
    Loop(p, "m_signal", "m_clerks", Cardinality(Clerks)) /\ Signal({"cust_ready"})
    /\ UNCHANGED <<program, mem>>

m_clerks(p) ==
    Loop(p, "m_clerks", "m_end", Cardinality(Clerks)) /\ wait_semaphore(p, "clerkTerminated")
    /\ UNCHANGED <<program, mem>>
m_end(p) == Goto(p, "m_end", IF sem["clerkTerminated"].count = 0 THEN "done" ELSE "panic") /\ OnlyPc

master_closes(p) == m_close(p) \/ m_last(p) \/ m_signal(p) \/ m_clerks(p) \/ m_end(p)

AirStep(p) ==
    /\ program = "air"
    /\ \/ p \in CustId /\ (customer_takes_number(p) \/ customer_asks(p) \/ customer_leaves(p))
       \/ p \in Clerks /\ clerk_serves(p)
       \/ p = Master /\ (m_customers(p) \/ master_checks(p) \/ master_closes(p))

-----------------------------------------------------------------------------
\* Whenever nobody is inside a flight's section, its tickets are either in
\* the counter or sold, each to a different customer who asked for that
\* flight and is marked booked, and the array has the sold ones at its front
\* (user/tst_air_clerk.c:88-160).
SeatsAccounted ==
    program = "air" =>
        \A f \in 1..2 :
            sem[FlightCS(f)].count = 1 =>
                LET sold == 0..(mem.bookedCounter[f] - 1)
                    arr == mem.bookedArr[f]
                IN  /\ mem.seats[f] + mem.bookedCounter[f] = Tickets[f]
                    /\ mem.seats[f] >= 0
                    /\ \A i \in sold : arr[i] \in CustId /\ mem.custs[arr[i]].booked
                                       /\ mem.custs[arr[i]].flightType \in {f, 3}
                    /\ \A i, j \in sold : i # j => arr[i] # arr[j]

\* The clerk has told the customer that it was served.
Told(id) == \/ sem[CustFinished(id)].count = 1
            \/ pc[id] \in {"c_leave", "done"} /\ ~Blocked(id)

\* Every customer is served exactly once: each request is in the queue once,
\* each one that was taken from it is with one clerk until the customer is
\* told, never again after, and a customer who is told has the seats asked for
\* or one of the flights was full (user/tst_air_clerk.c:71-177,
\* user/tst_air_customer.c:89-125).
ServedOnce ==
    program = "air" =>
        LET asked == 0..(mem.queue_in - 1)
            taken == {mem.queue[i] : i \in 0..(mem.queue_out - 1)}
            serving(id) == {c \in Clerks : /\ local[c].custId = id
                                           /\ pc[c] \in {"k_type", "k_lock", "k_check", "k_book",
                                                         "k_unlock", "k_finished"}}
            wants(id) == Range(Flights(mem.custs[id].flightType))
        IN  /\ mem.queue_out <= mem.queue_in
            /\ \A i, j \in asked : i # j => mem.queue[i] # mem.queue[j]
            /\ \A id \in CustId :
                  /\ Cardinality(serving(id)) + (IF Told(id) THEN 1 ELSE 0)
                       = IF id \in taken THEN 1 ELSE 0
                  /\ Told(id) => IF mem.custs[id].booked THEN ~WrongBooking(id)
                                 ELSE \E f \in wants(id) : mem.seats[f] = 0
=============================================================================
