---------------------------- MODULE EventCache ----------------------------
(***************************************************************************)
(* Event mailings: MailingImpl.sendEventMailing takes the prepared Mailgun *)
(* of a mailing from a TimeoutLRUMap, or prepares a new one and puts it    *)
(* there, and executes it for one customer.  The servlet threads of        *)
(* several requests run at once, and all that find the same Mailgun share  *)
(* its Data object, into which each writes its customer.  There is one     *)
(* mailing, which is stopped at some time, or deleted.                     *)
(*                                                                         *)
(* The user status of a request is left out: BC.prepareClause makes a part *)
(* of a query of it, which no query of an event mailing has.               *)
(***************************************************************************)
EXTENDS Naturals, FiniteSets

CONSTANTS
    Requests,    \* executions of SendMailing
    Customers,
    CustomerOf,  \* per request: its customer
    Lifetime,    \* maxCacheTimeMillis of the map
    MaxClock,    \* bound: the clock
    Nobody       \* no Mailgun, no time, no customer

ASSUME EventAssumption ==
    /\ CustomerOf \in [Requests -> Customers]
    /\ Lifetime \in Nat
    /\ MaxClock \in Nat
    /\ Nobody \notin Requests \cup Customers \cup Nat

VARIABLES
    clock,
    stopped,   \* when the ACTIONBASED row was removed
    cached,    \* the Mailgun in the map, named by the request that made it
    stamp,     \* its timestamp
    deleted,   \* the mailing is marked as deleted
    customer,  \* per Mailgun: campaignCustomerID of its Data
    pass,      \* per Mailgun: the executions so far
    epc,       \* per request: where it is
    gun,       \* per request: its Mailgun
    started,   \* per request: when it asked the map
    mail,      \* per request: the customer and the pass in the name of the file it wrote
    inFlight   \* history: Mailguns that were being prepared when the mailing was stopped

dataVars == <<customer, pass>>
eventVars == <<clock, stopped, cached, stamp, deleted, dataVars, epc, gun, started, mail,
               inFlight>>

NoMail == [customer |-> Nobody, pass |-> 0]

\* The requests that wrote a mail.
Mailed == {r \in Requests : mail[r] # NoMail}

----------------------------------------------------------------------------

EventTypeOK ==
    /\ clock \in 0 .. MaxClock
    /\ stopped \in 0 .. MaxClock \cup {Nobody}
    /\ cached \in Requests \cup {Nobody}
    /\ stamp \in 0 .. MaxClock
    /\ deleted \in BOOLEAN
    /\ customer \in [Requests -> Customers \cup {Nobody}]
    /\ pass \in [Requests -> Nat]
    /\ epc \in [Requests -> {"idle", "ask", "prepare", "put", "execute", "select", "done", "failed"}]
    /\ gun \in [Requests -> Requests \cup {Nobody}]
    /\ started \in [Requests -> 0 .. MaxClock]
    /\ mail \in [Requests -> [customer : Customers \cup {Nobody}, pass : Nat]]
    /\ inFlight \subseteq Requests

EventInit ==
    /\ clock = 0
    /\ stopped = Nobody
    /\ cached = Nobody
    /\ stamp = 0
    /\ deleted = FALSE
    /\ customer = [r \in Requests |-> Nobody]
    /\ pass = [r \in Requests |-> 0]
    /\ epc = [r \in Requests |-> "idle"]
    /\ gun = [r \in Requests |-> Nobody]
    /\ started = [r \in Requests |-> 0]
    /\ mail = [r \in Requests |-> NoMail]
    /\ inFlight = {}

EventGoto(r, state) == epc' = [epc EXCEPT ![r] = state]

----------------------------------------------------------------------------

Tick ==
    /\ clock < MaxClock
    /\ clock' = clock + 1
    /\ UNCHANGED <<stopped, cached, stamp, deleted, dataVars, epc, gun, started, mail, inFlight>>

\* The row of maildrop_status_tbl is removed.  The map is not told.
StopMailing ==
    /\ stopped = Nobody
    /\ stopped' = clock
    /\ inFlight' = {r \in Requests : epc[r] = "put"}
    /\ UNCHANGED <<clock, cached, stamp, deleted, dataVars, epc, gun, started, mail>>

\* The mailing is marked as deleted, which leaves the row where it is.
DeleteMailing ==
    /\ ~deleted
    /\ deleted' = TRUE
    /\ UNCHANGED <<clock, stopped, cached, stamp, dataVars, epc, gun, started, mail, inFlight>>

\* SendMailing.executeOperation does nothing for a mailing getMailing does not find.
LoadMailing(r) ==
    /\ epc[r] = "idle"
    /\ EventGoto(r, IF deleted THEN "failed" ELSE "ask")
    /\ UNCHANGED <<clock, stopped, cached, stamp, deleted, dataVars, gun, started, mail, inFlight>>

\* Mutant: get does not look at the timestamp.
MutFresh == cached # Nobody

\* The map has an entry, and it is not too old.
Fresh == cached # Nobody /\ clock < stamp + Lifetime

\* TimeoutLRUMap.get, which drops an entry that is too old.
AskCache(r) ==
    /\ epc[r] = "ask"
    /\ started' = [started EXCEPT ![r] = clock]
    /\ IF Fresh
       THEN /\ gun' = [gun EXCEPT ![r] = cached]
            /\ EventGoto(r, "execute")
            /\ cached' = cached
       ELSE /\ EventGoto(r, "prepare")
            /\ cached' = Nobody
            /\ gun' = gun
    /\ UNCHANGED <<clock, stopped, stamp, deleted, dataVars, mail, inFlight>>

\* initializeMailgun and prepareMailgun read the row and build the texts; without
\* the row the request fails.
PrepareMailgun(r) ==
    /\ epc[r] = "prepare"
    /\ IF stopped = Nobody
       THEN /\ gun' = [gun EXCEPT ![r] = r]
            /\ EventGoto(r, "put")
       ELSE /\ gun' = gun
            /\ EventGoto(r, "failed")
    /\ UNCHANGED <<clock, stopped, cached, stamp, deleted, dataVars, started, mail, inFlight>>

\* TimeoutLRUMap.put keeps an entry that is there, even if it is too old.
PutInCache(r) ==
    /\ epc[r] = "put"
    /\ IF cached = Nobody
       THEN cached' = r /\ stamp' = clock
       ELSE UNCHANGED <<cached, stamp>>
    /\ EventGoto(r, "execute")
    /\ UNCHANGED <<clock, stopped, deleted, dataVars, gun, started, mail, inFlight>>

\* Mutant: executeMailgun is not synchronized.
MutMonitorFree(g) == TRUE

\* executeMailgun is synchronized.
MonitorFree(g) == \A r \in Requests : epc[r] = "select" => gun[r] # g

\* The begin of doExecute: Data.options writes the customer of the request into the
\* Data, sanityCheck looks whether the mailing was deleted, which ends the execution,
\* and the executions are counted.
Options(r) ==
    /\ epc[r] = "execute"
    /\ MonitorFree(gun[r])
    /\ customer' = [customer EXCEPT ![gun[r]] = CustomerOf[r]]
    /\ IF deleted
       THEN /\ EventGoto(r, "failed")
            /\ pass' = pass
       ELSE /\ EventGoto(r, "select")
            /\ pass' = [pass EXCEPT ![gun[r]] = @ + 1]
    /\ UNCHANGED <<clock, stopped, cached, stamp, deleted, gun, started, mail, inFlight>>

\* The rest of it: the query (BC) is for the customer in the Data, and for nothing but
\* his id; his mail goes to a file that has the pass and the customer in its name
\* (MailWriter.startBlock).
SelectCustomer(r) ==
    /\ epc[r] = "select"
    /\ mail' = [mail EXCEPT ![r] = [customer |-> customer[gun[r]], pass |-> pass[gun[r]]]]
    /\ EventGoto(r, "done")
    /\ UNCHANGED <<clock, stopped, cached, stamp, deleted, dataVars, gun, started, inFlight>>

\* There is no such customer in any mailing list, he is on a blacklist, or a query fails.
SelectNobody(r) ==
    /\ epc[r] = "select"
    /\ EventGoto(r, "failed")
    /\ UNCHANGED <<clock, stopped, cached, stamp, deleted, dataVars, gun, started, mail, inFlight>>

EventNext ==
    \/ Tick \/ StopMailing \/ DeleteMailing
    \/ \E r \in Requests :
        \/ LoadMailing(r) \/ AskCache(r) \/ PrepareMailgun(r) \/ PutInCache(r)
        \/ Options(r) \/ SelectCustomer(r) \/ SelectNobody(r)

EventSpec == EventInit /\ [][EventNext]_eventVars

----------------------------------------------------------------------------
(* Properties *)

\* A mailing that was stopped goes on for the lifetime of the cache entry, and
\* no longer: but for a Mailgun that was being prepared at that moment, whose
\* entry gets its time stamp later (sendEventMailing, TimeoutLRUMap).  Without a
\* lifetime the requests of that moment itself may still be answered.
StopsWithinLifetime ==
    \A r \in Mailed :
        /\ stopped # Nobody
        /\ gun[r] \notin inFlight
        => started[r] <= stopped \/ started[r] < stopped + Lifetime

\* A mail goes to the customer of the request that sends it, whatever others do with
\* the same Mailgun at that time; and two mails that go to files with the same pass and
\* customer in their names, one of which is lost when they are of the same second, are
\* made by two Mailguns, as requests make that prepare one each or that outlast the
\* cache entry (executeMailgun, Data.options, the pass of Data).
OwnMail ==
    \A r \in Mailed :
        /\ mail[r].customer = CustomerOf[r]
        /\ \A s \in Mailed \ {r} : mail[r] = mail[s] => gun[r] # gun[s]
============================================================================
