---------------------------- MODULE ChannelPages ----------------------------
(***************************************************************************)
(* What becomes of a page of orders that is read from the sales channel    *)
(* (syncOrdersheetStatuses): it is read under a revision that is reserved  *)
(* before the call, with a row in the log of API calls, and one            *)
(* transaction stores its orders and closes the row.  Several workers read *)
(* pages with the same orders.  A reader whose worker lease has lapsed     *)
(* goes on until it looks at the lease, beside its successor; the rows of  *)
(* those that are gone are closed by a recovery.                           *)
(* Which pages are read is OrderReconciliation.                            *)
(*                                                                         *)
(* An order's status at the channel is a number that only grows, from 1 to *)
(* Last, which also tells how old a reading of it is.                      *)
(***************************************************************************)
EXTENDS Naturals, Sequences, FiniteSetsExt

CONSTANTS
  PageOrder,      \* the orders
  PageReader,     \* executions of workers that read orders
  PageLast,       \* the last status of an order
  MaxPages,       \* bound on the pages that are asked for
  MaxPageMishaps  \* bound on errors, deaths and lapses of a lease

ASSUME PageAssumption ==
  /\ PageLast \in Nat \ {0}
  /\ MaxPages \in Nat
  /\ MaxPageMishaps \in Nat

VARIABLES
  pageStage,    \* each order's status at the channel
  clock,        \* current_revision of sales_channel_projection_clocks
  logs,         \* processed_status of the call with each revision
  raw,          \* each order's stored status and projection_revision, or none
  pagePc,       \* where each reader stands
  asked,        \* its page: the revision, the orders and their status, and
                \*   the orders' statuses when the revision was reserved
                \*   (history)
  ousted,       \* the readers that have lost the worker's lease
  candidate,    \* the row that the recovery has found, and its status
  pageMishaps,  \* errors, deaths and lapses so far
  floor         \* history: each order's status when the newest of the stored
                \*   pages with it was asked for

pageExecution == <<pagePc, asked, ousted>>
recovery == <<candidate, pageMishaps>>
pageVars == <<pageStage, clock, logs, raw, pageExecution, recovery, floor>>

NoRow == [rev |-> 0, stage |-> 0]
NoPage == [rev |-> 0, orders |-> {}, stage |-> 0,
           before |-> [o \in PageOrder |-> 0]]
NoCandidate == [rev |-> 0, status |-> "NONE"]
NonTerminal == {"PENDING", "RECEIVED", "PROCESSING"}

PageInit ==
  /\ pageStage = [o \in PageOrder |-> 1]
  /\ clock = 0
  /\ logs = <<>>
  /\ raw = [o \in PageOrder |-> NoRow]
  /\ pagePc = [e \in PageReader |-> "idle"]
  /\ asked = [e \in PageReader |-> NoPage]
  /\ ousted = {}
  /\ candidate = NoCandidate
  /\ pageMishaps = 0
  /\ floor = [o \in PageOrder |-> 0]

PageMishap == pageMishaps < MaxPageMishaps /\ pageMishaps' = pageMishaps + 1

PageSteps(e, to) == pagePc' = [pagePc EXCEPT ![e] = to]

\* The reader is done with its page.
LeavesPage(e) ==
  /\ PageSteps(e, "idle")
  /\ asked' = [asked EXCEPT ![e] = NoPage]
  /\ ousted' = ousted \ {e}

PageLeaseIsActive(e) == e \notin ousted

Reading(e) == pagePc[e] # "idle"

-----------------------------------------------------------------------------
(* A page.                                                                   *)

\* The next page begins with a look at the lease.
BeginPage(e) ==
  /\ ~Reading(e)
  /\ PageSteps(e, "begun")
  /\ UNCHANGED <<pageStage, clock, logs, raw, asked, ousted, recovery, floor>>

\* The observation is reserved, and the call is logged.
Reserve(e) ==
  /\ pagePc[e] = "begun"
  /\ clock < MaxPages
  /\ clock' = clock + 1
  /\ logs' = Append(logs, "PENDING")
  /\ asked' = [asked EXCEPT ![e].rev = clock + 1, ![e].before = pageStage]
  /\ PageSteps(e, "asking")
  /\ UNCHANGED <<pageStage, raw, ousted, recovery, floor>>

\* The channel answers with some of the orders that have the status.
Call(e) ==
  /\ pagePc[e] = "asking"
  /\ PageLeaseIsActive(e)
  /\ \E s \in 1..PageLast :
     \E page \in SUBSET {o \in PageOrder : pageStage[o] = s} :
       asked' = [asked EXCEPT ![e].orders = page, ![e].stage = s]
  /\ PageSteps(e, "answered")
  /\ UNCHANGED <<pageStage, clock, logs, raw, ousted, recovery, floor>>

\* The log of a reader's call goes from one status to the next.
Logs(e, from, to) ==
  /\ logs[asked[e].rev] = from
  /\ logs' = [logs EXCEPT ![asked[e].rev] = to]

Receive(e) ==
  /\ pagePc[e] = "answered"
  /\ PageLeaseIsActive(e)
  /\ Logs(e, "PENDING", "RECEIVED")
  /\ PageSteps(e, "received")
  /\ UNCHANGED <<pageStage, clock, raw, asked, ousted, recovery, floor>>

Process(e) ==
  /\ pagePc[e] = "received"
  /\ Logs(e, "RECEIVED", "PROCESSING")
  /\ PageSteps(e, "processing")
  /\ UNCHANGED <<pageStage, clock, raw, asked, ousted, recovery, floor>>

\* Mutant of Newer: the page that is stored last is the one that counts.
NewerOrLater(e, o) == raw[o].rev <= clock

\* A page is stale for an order that a later observation has stored.
Newer(e, o) == raw[o].rev < asked[e].rev

\* One transaction stores the page and closes its log.  It looks at the signal
\* of the lease in memory, never at the lease.
Store(e) ==
  LET page == asked[e]
  IN /\ pagePc[e] = "processing"
     /\ Logs(e, "PROCESSING", "SUCCESS")
     /\ raw' = [o \in PageOrder |-> IF o \in page.orders /\ Newer(e, o)
                               THEN [rev |-> page.rev, stage |-> page.stage]
                               ELSE raw[o]]
     /\ floor' = [o \in PageOrder |-> IF o \in page.orders
                                 THEN Max({floor[o], page.before[o]})
                                 ELSE floor[o]]
     /\ PageSteps(e, "stored")
     /\ UNCHANGED <<pageStage, clock, asked, ousted, recovery>>

\* The status of the orders' deliveries has been seen to.
EndPage(e) ==
  /\ pagePc[e] = "stored"
  /\ LeavesPage(e)
  /\ UNCHANGED <<pageStage, clock, logs, raw, recovery, floor>>

\* An update of the log that is refused, or a lease that is found lost.
Refused(e) ==
  \/ ~PageLeaseIsActive(e)
  \/ asked[e].rev # 0 /\ logs[asked[e].rev] = "FAILED"

\* Any other error at any step, or a shutdown (which writes CANCELED).
FailRead(e) ==
  /\ Reading(e)
  /\ IF Refused(e) THEN UNCHANGED pageMishaps ELSE PageMishap
  /\ logs' = [r \in 1..clock |-> IF r = asked[e].rev /\ logs[r] \in NonTerminal
                                THEN "FAILED" ELSE logs[r]]
  /\ LeavesPage(e)
  /\ UNCHANGED <<pageStage, clock, raw, candidate, floor>>

\* The process dies.
ReaderDies(e) ==
  /\ Reading(e)
  /\ PageMishap
  /\ LeavesPage(e)
  /\ UNCHANGED <<pageStage, clock, logs, raw, candidate, floor>>

\* The worker's lease lapses, and the worker's job may be claimed again.
IsOusted(e) ==
  /\ Reading(e)
  /\ PageLeaseIsActive(e)
  /\ PageMishap
  /\ ousted' = ousted \cup {e}
  /\ UNCHANGED <<pageStage, clock, logs, raw, pagePc, asked, candidate, floor>>

-----------------------------------------------------------------------------
(* The recovery of interrupted calls: it lists those that have not moved for *)
(* 15 minutes and closes each that is as it was listed.                      *)

WorkerStillOwnsCall(r) ==
  \E e \in PageReader : asked[e].rev = r /\ PageLeaseIsActive(e)

\* A call that an ousted reader began after its successor had started counts as
\* the successor's there; the recovery then waits for the successor to end.
FindInterrupted(r) ==
  /\ candidate = NoCandidate
  /\ logs[r] \in NonTerminal
  /\ ~WorkerStillOwnsCall(r)
  /\ candidate' = [rev |-> r, status |-> logs[r]]
  /\ UNCHANGED <<pageStage, clock, logs, raw, pageExecution, pageMishaps,
                 floor>>

\* Mutant of AsListed: whatever has become of the call.
AsListedOnce == candidate.rev # 0

AsListed == logs[candidate.rev] = candidate.status

RecoverInterrupted ==
  /\ candidate # NoCandidate
  /\ logs' = IF AsListed THEN [logs EXCEPT ![candidate.rev] = "FAILED"]
             ELSE logs
  /\ candidate' = NoCandidate
  /\ UNCHANGED <<pageStage, clock, raw, pageExecution, pageMishaps, floor>>

-----------------------------------------------------------------------------

\* The order goes on at the channel.
OrderMoves(o) ==
  /\ \E s \in (pageStage[o] + 1)..PageLast :
       pageStage' = [pageStage EXCEPT ![o] = s]
  /\ UNCHANGED <<clock, logs, raw, pageExecution, recovery, floor>>

PageStep(e) ==
  \/ BeginPage(e) \/ Reserve(e) \/ Call(e) \/ Receive(e) \/ Process(e)
  \/ Store(e) \/ EndPage(e) \/ FailRead(e) \/ ReaderDies(e) \/ IsOusted(e)

PageNext ==
  \/ \E e \in PageReader : PageStep(e)
  \/ \E r \in 1..clock : FindInterrupted(r)
  \/ RecoverInterrupted
  \/ \E o \in PageOrder : OrderMoves(o)

PageSpec == PageInit /\ [][PageNext]_pageVars

-----------------------------------------------------------------------------
(* Properties.                                                               *)

\* What is stored of an order is at least as new as the order was at the
\* channel when any page that is recorded and had the order was asked for,
\* although pages of several readers overtake each other between the call and
\* the transaction (upsertOrderRawSnapshot).
NotOlderThanRead == \A o \in PageOrder : raw[o].stage >= floor[o]

\* The page that an order was stored from is recorded as a success: neither
\* the recovery nor an error takes a stored page for an interrupted one, and
\* what is recorded as interrupted was not stored (completeCoupangApiCallLog,
\* recoverInterruptedCoupangReadSyncs).
StoredIsRecorded ==
  \A o \in PageOrder : raw[o].rev # 0 => logs[raw[o].rev] = "SUCCESS"
=============================================================================
