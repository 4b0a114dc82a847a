------------------------- MODULE OrderReconciliation -------------------------
(***************************************************************************)
(* Which orders of the sales channel are read: the reconciliation          *)
(* (syncCoupangOrderReconciliation) follows a cursor.  A run reads, status *)
(* by status and page by page, a window that begins a day before what is   *)
(* covered and goes at most a day beyond, and moves the cursor when all    *)
(* has been read.  Meanwhile orders are made, and go from status to status *)
(* at the channel.  A run whose worker lease has lapsed goes on until it   *)
(* looks at the lease, beside its successor.  What happens to a page       *)
(* between the call and its storing is ChannelPages.                       *)
(*                                                                         *)
(* Times are instants; an order that is made between the instants c - 1    *)
(* and c has the time c.  A day has Day units.  An order's status at the   *)
(* channel is a number that only grows, from Accept to Last.               *)
(***************************************************************************)
EXTENDS Naturals, Sequences, FiniteSetsExt

CONSTANTS
  Order,      \* the orders: numbers, in the order of the channel's pages
  Reader,     \* executions of the worker
  Last,       \* the last status of an order
  Day,        \* units of time in a day
  MaxTime,    \* bound on the time
  MaxMishaps  \* bound on errors, deaths and lapses of a lease

ASSUME WindowAssumption ==
  /\ Order \subseteq Nat \ {0}
  /\ Last \in Nat \ {0}
  /\ Day \in Nat \ {0}
  /\ MaxTime \in Nat
  /\ Day <= MaxTime
  /\ MaxMishaps \in Nat

VARIABLES
  now,        \* the time
  created,    \* when each order was made, 0 before
  stage,      \* its status at the channel
  stored,     \* the orders with a row in coupang_order_raw
  cursor,     \* last_window_from and last_window_to of the cursor, and
              \*   last_success_at of the one it has succeeded
  readPc,     \* where each reader stands
  read,       \* its window, the status it is at and the token of the page
  overtaken,  \* the readers that have lost the worker's lease
  mishaps,    \* errors, deaths and lapses so far
  since       \* history: when the last run began that found nothing covered

channelVars == <<now, created, stage>>
execution == <<readPc, read, overtaken>>
windowVars == <<channelVars, stored, cursor, execution, mishaps, since>>

Accept == 1
NoTime == MaxTime + 1
NoRead == [from |-> 0, to |-> 0, at |-> 1, token |-> 0]

\* A new database, or one that an older version has read until now.
WindowInit ==
  /\ now = Day
  /\ created = [o \in Order |-> 0]
  /\ stage = [o \in Order |-> 0]
  /\ stored = {}
  /\ cursor \in [from : {NoTime}, to : {NoTime}, legacy : {NoTime, Day}]
  /\ readPc = [e \in Reader |-> "idle"]
  /\ read = [e \in Reader |-> NoRead]
  /\ overtaken = {}
  /\ mishaps = 0
  /\ since = 0

Mishap == mishaps < MaxMishaps /\ mishaps' = mishaps + 1

Steps(e, to) == readPc' = [readPc EXCEPT ![e] = to]

\* The run is over.
Leaves(e) ==
  /\ Steps(e, "idle")
  /\ read' = [read EXCEPT ![e] = NoRead]
  /\ overtaken' = overtaken \ {e}

LeaseIsActive(e) == e \notin overtaken

Running(e) == readPc[e] # "idle"

-----------------------------------------------------------------------------
(* The run of the worker.                                                    *)

\* The statuses in the order in which they are asked for: new orders last.
Statuses == [i \in 1..Last |-> IF i < Last THEN i + 1 ELSE Accept]

FromNothing == cursor = [from |-> NoTime, to |-> NoTime, legacy |-> NoTime]

\* Until when the orders have been read.
PreviousCoverage ==
  IF cursor.to # NoTime THEN cursor.to
  ELSE IF cursor.from # NoTime THEN cursor.from + Day
  ELSE IF cursor.legacy # NoTime THEN cursor.legacy
  ELSE now

\* Mutant of WindowEnd: everything that was missed is caught up with at once.
WindowEndNow == now

WindowEnd == Min({now, PreviousCoverage + Day})

\* A claim of the worker's job: the run computes its window.
PlanRead(e) ==
  /\ ~Running(e)
  /\ \A f \in Reader : ~(Running(f) /\ LeaseIsActive(f))
  /\ read' = [read EXCEPT
       ![e] = [NoRead EXCEPT !.from = PreviousCoverage - Day,
                             !.to = WindowEnd]]
  /\ Steps(e, "planned")
  /\ since' = IF FromNothing THEN now ELSE since
  /\ UNCHANGED <<channelVars, stored, cursor, overtaken, mishaps>>

\* The first run leaves its window's beginning behind, should it fail.
OpenCursor(e) ==
  /\ readPc[e] = "planned"
  /\ Steps(e, "reading")
  /\ cursor' = IF cursor.from = NoTime
               THEN [cursor EXCEPT !.from = read[e].from] ELSE cursor
  /\ UNCHANGED <<channelVars, stored, read, overtaken, mishaps, since>>

\* The days of the window, less what lies before its beginning.
InWindow(e, o) ==
  /\ created[o] > read[e].from
  /\ created[o] <= (read[e].to \div Day + 1) * Day

\* What the channel has of the status, after the token.
Found(e) ==
  {o \in Order : /\ created[o] # 0
                 /\ stage[o] = Statuses[read[e].at]
                 /\ InWindow(e, o)
                 /\ o > read[e].token}

\* A page with a token of the next one, up to its storing.  Where it ends is up
\* to the other orders of the channel.
ReadPage(e) ==
  /\ readPc[e] = "reading"
  /\ LeaseIsActive(e)
  /\ \E token \in {o \in Order : o > read[e].token} :
       /\ stored' = stored \cup {o \in Found(e) : o <= token}
       /\ read' = [read EXCEPT ![e].token = token]
  /\ UNCHANGED <<channelVars, cursor, readPc, overtaken, mishaps, since>>

\* The last page of a status, and on to the next one.
ReadLastPage(e) ==
  /\ readPc[e] = "reading"
  /\ LeaseIsActive(e)
  /\ stored' = stored \cup Found(e)
  /\ IF read[e].at < Len(Statuses)
     THEN /\ read' = [read EXCEPT ![e].at = @ + 1, ![e].token = 0]
          /\ UNCHANGED readPc
     ELSE /\ Steps(e, "ending")
          /\ UNCHANGED read
  /\ UNCHANGED <<channelVars, cursor, overtaken, mishaps, since>>

\* The last look at the lease.
EndRead(e) ==
  /\ readPc[e] = "ending"
  /\ LeaseIsActive(e)
  /\ Steps(e, "marking")
  /\ UNCHANGED <<channelVars, stored, cursor, read, overtaken, mishaps, since>>

\* markSyncSuccess
MarkSuccess(e) ==
  /\ readPc[e] = "marking"
  /\ cursor' = [cursor EXCEPT !.from = read[e].from, !.to = read[e].to]
  /\ Leaves(e)
  /\ UNCHANGED <<channelVars, stored, mishaps, since>>

\* An error, a lease that is found lost, or the process dies.  What an error
\* writes into the cursor is no part of the window.
EndsEarly(e) ==
  /\ Running(e)
  /\ IF LeaseIsActive(e) THEN Mishap ELSE UNCHANGED mishaps
  /\ Leaves(e)
  /\ UNCHANGED <<channelVars, stored, cursor, since>>

\* The worker's lease lapses, and the job may be claimed again.
IsOvertaken(e) ==
  /\ Running(e)
  /\ LeaseIsActive(e)
  /\ Mishap
  /\ overtaken' = overtaken \cup {e}
  /\ UNCHANGED <<channelVars, stored, cursor, readPc, read, since>>

-----------------------------------------------------------------------------
(* The channel, and time.                                                    *)

Ordered(o) ==
  /\ created[o] = 0
  /\ now < MaxTime
  /\ created' = [created EXCEPT ![o] = now + 1]
  /\ stage' = [stage EXCEPT ![o] = Accept]
  /\ UNCHANGED <<now, stored, cursor, execution, mishaps, since>>

Moves(o) ==
  /\ created[o] # 0
  /\ \E s \in (stage[o] + 1)..Last : stage' = [stage EXCEPT ![o] = s]
  /\ UNCHANGED <<now, created, stored, cursor, execution, mishaps, since>>

TimePasses ==
  /\ now < MaxTime
  /\ now' = now + 1
  /\ UNCHANGED <<created, stage, stored, cursor, execution, mishaps, since>>

-----------------------------------------------------------------------------

Reads(e) ==
  \/ PlanRead(e) \/ OpenCursor(e) \/ ReadPage(e) \/ ReadLastPage(e)
  \/ EndRead(e) \/ MarkSuccess(e) \/ EndsEarly(e) \/ IsOvertaken(e)

WindowNext ==
  \/ \E e \in Reader : Reads(e)
  \/ \E o \in Order : Ordered(o) \/ Moves(o)
  \/ TimePasses

WindowSpec == WindowInit /\ [][WindowNext]_windowVars

-----------------------------------------------------------------------------
(* Properties.                                                               *)

\* An order that is a day older than what the cursor covers is stored, however
\* runs fail, overlap, are overtaken or catch up with a long standstill, and
\* although the order's status changes while the pages are read
\* (syncCoupangOrderReconciliation).  A run may miss an order that leaves the
\* first status behind its back; the day by which windows overlap, and the day
\* by which they advance at most, give the order a second run before it is
\* left behind.
CoveredIsStored ==
  \A o \in Order :
    (/\ created[o] > since
     /\ cursor.to # NoTime
     /\ created[o] + Day <= cursor.to) => o \in stored
=============================================================================
