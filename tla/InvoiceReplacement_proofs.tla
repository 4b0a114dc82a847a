---------------------- MODULE InvoiceReplacement_proofs ----------------------
(***************************************************************************)
(* Proofs about the issue of invoices and their replacement: what          *)
(* CarrierIssue and InvoiceReplacement promise holds for any keys,         *)
(* requests, retries and faults, and whatever the carrier and the sales    *)
(* channel make of a request.                                              *)
(*                                                                         *)
(* The invariant of the issues looks at what a request does between the    *)
(* preparation of a batch and its result, and at nothing else that the     *)
(* request does, so that it is the invariant of the issues within a        *)
(* replacement as well.                                                    *)
(***************************************************************************)
EXTENDS InvoiceReplacement, FiniteSetTheorems, TLAPS

USE IssueAssumption DEF IssueAssumption
USE ReplacementAssumption DEF ReplacementAssumption

Answer == {"number", "surplus", "short", "refused", "uncertain", "error"}

BatchTypes ==
  /\ batch \in [Key -> {None, "ALLOCATING", "ALLOCATED", "FAILED",
                        "REVIEW_REQUIRED"}]
  /\ attempt \in [Key -> Nat]
  /\ dispatched \in [Key -> BOOLEAN]
  /\ invoice \in [Key -> {None, "ALLOCATED", "REGISTERED", "REPLACED"}]
  /\ revision = [k \in Key |-> revision[k]]
  /\ allotted \in [Key -> Nat]

RequestTypes ==
  /\ reqPc = [e \in Exec |-> reqPc[e]]
  /\ plan = [e \in Exec |-> plan[e]]
  /\ \A e \in Exec : plan[e].key \in Key /\ plan[e].attempt \in Nat
  /\ answer \in [Exec -> Answer \cup {None, "unsent"}]

Types == BatchTypes /\ RequestTypes

Working(e) == reqPc[e] \in {"prepared", "calling", "answered"}

\* The batch has not been tried again since the request prepared it.
Mine(e) == plan[e].attempt = attempt[plan[e].key]

\* An attempt of a batch is the work of one request.
PlanInv ==
  /\ \A e \in Exec : Working(e) => plan[e].attempt <= attempt[plan[e].key]
  /\ \A e, f \in Exec :
       /\ Working(e)
       /\ Working(f)
       /\ plan[e].key = plan[f].key
       /\ plan[e].attempt = plan[f].attempt
       => e = f

\* What is prepared was not dispatched by somebody else.
PreparedInv ==
  \A e \in Exec :
    reqPc[e] = "prepared" /\ Mine(e) => ~dispatched[plan[e].key]

\* A request that may call has committed it, so the recovery lets nobody try
\* the batch again; it has no number yet.
CallingInv ==
  \A e \in Exec : reqPc[e] = "calling" =>
    /\ Mine(e)
    /\ dispatched[plan[e].key]
    /\ batch[plan[e].key] \in {"ALLOCATING", "REVIEW_REQUIRED"}
    /\ plan[e].key \notin misread => allotted[plan[e].key] = 0

\* What a request knows of the batch that it works on.
AnsweredInv ==
  \A e \in Exec : reqPc[e] = "answered" =>
    /\ answer[e] \in {"number", "surplus"} => allotted[plan[e].key] > 0
    /\ Mine(e) /\ answer[e] \in {"refused", "error"} =>
         (plan[e].key \notin misread => allotted[plan[e].key] = 0)

\* A batch has a number only if it was dispatched and did not fail.
NumberInv ==
  \A k \in Key \ misread :
    /\ allotted[k] \in {0, 1}
    /\ allotted[k] = 1 =>
         /\ batch[k] \in {"ALLOCATING", "ALLOCATED", "REVIEW_REQUIRED"}
         /\ batch[k] = "ALLOCATING" => dispatched[k]

\* The current invoice exists.
CurrentInv == current = None \/ current \in Existing

IssueInv ==
  /\ Types
  /\ PlanInv
  /\ PreparedInv
  /\ CallingInv
  /\ AnsweredInv
  /\ NumberInv
  /\ StoredAsGiven
  /\ CurrentInv

-----------------------------------------------------------------------------
LEMMA InitIssueInv == IssueInit => IssueInv
<1>. SUFFICES ASSUME IssueInit PROVE IssueInv
  OBVIOUS
<1>. USE DEF IssueInit
<1>1. BatchTypes
  BY DEF BatchTypes
<1>2. RequestTypes
  BY DEF RequestTypes, NoPlan
<1>3. \A e \in Exec : ~Working(e) /\ reqPc[e] = "idle"
  BY DEF Working
<1>4. StoredAsGiven
  BY DEF StoredAsGiven, Existing, None
<1>5. NumberInv
  BY DEF NumberInv
<1>. QED
  BY <1>1, <1>2, <1>3, <1>4, <1>5
     DEF IssueInv, Types, PlanInv, PreparedInv, CallingInv, AnsweredInv,
     CurrentInv

\* A request turns to something else, and no batch changes.
LEMMA TurnStep ==
  ASSUME IssueInv, NEW e \in Exec, NEW k \in Key, NEW to,
         to \notin {"prepared", "calling", "answered"}, Turns(e, to, k), UNCHANGED <<batches, shipments, current, carrier>>
  PROVE  IssueInv'
<1>. USE DEF IssueInv, Turns, batches, shipments, carrier
<1>1. /\ reqPc'[e] = to
      /\ \A f \in Exec \ {e} : /\ reqPc'[f] = reqPc[f]
                               /\ plan'[f] = plan[f]
                               /\ answer'[f] = answer[f]
  BY DEF Types, RequestTypes
<1>2. RequestTypes'
  BY DEF Types, RequestTypes, NoPlan
<1>3. Types'
  BY <1>2 DEF Types, BatchTypes
<1>4. PlanInv' /\ PreparedInv' /\ CallingInv' /\ AnsweredInv'
  BY <1>1 DEF PlanInv, PreparedInv, CallingInv, AnsweredInv, Working, Mine
<1>5. NumberInv' /\ StoredAsGiven' /\ CurrentInv'
  BY DEF NumberInv, StoredAsGiven, Existing, CurrentInv
<1>. QED
  BY <1>3, <1>4, <1>5

\* A batch is tried again only when it has no number.
LEMMA PrepareStep ==
  ASSUME IssueInv, NEW e \in Exec, NEW k \in Key, ~Working(e), Prepare(e, k)
  PROVE  IssueInv'
<1>. USE DEF IssueInv, Prepare, shipments, carrier
<1>1. batch[k] \in {None, "FAILED"}
  BY DEF Replayed
<1>2. /\ reqPc'[e] = "prepared"
      /\ plan'[e].key = k
      /\ plan'[e].attempt = attempt[k] + 1
      /\ \A f \in Exec \ {e} : reqPc'[f] = reqPc[f] /\ plan'[f] = plan[f]
      /\ answer' = answer
  BY DEF Types, RequestTypes
<1>3. /\ batch'[k] = "ALLOCATING"
      /\ attempt'[k] = attempt[k] + 1
      /\ \A j \in Key \ {k} : /\ batch'[j] = batch[j]
                              /\ attempt'[j] = attempt[j]
                              /\ dispatched'[j] = dispatched[j]
      /\ UNCHANGED <<allotted, misread, invoice, revision>>
  BY DEF Types, BatchTypes
<1>4. Types'
  <2>1. BatchTypes'
    BY DEF Types, BatchTypes
  <2>2. attempt[k] + 1 \in Nat
    BY DEF Types, BatchTypes
  <2>3. reqPc' = [f \in Exec |-> reqPc'[f]]
    BY DEF Types, RequestTypes
  <2>4. plan' = [f \in Exec |-> plan'[f]]
    BY DEF Types, RequestTypes
  <2>. QED
    BY <1>2, <2>1, <2>2, <2>3, <2>4 DEF Types, RequestTypes
<1>5. \A f \in Exec : Working(f) => plan[f].attempt <= attempt[plan[f].key]
  BY DEF PlanInv
<1>6. \A f \in Exec \ {e} : Working(f)' /\ plan[f].key = k =>
        plan'[f].attempt < attempt'[k]
  BY <1>2, <1>3, <1>5, SMT DEF Working, Types, RequestTypes, BatchTypes
<1>7. PlanInv'
  <2>1. ASSUME NEW f \in Exec, Working(f)'
        PROVE  plan'[f].attempt <= attempt'[plan'[f].key]
    <3>1. CASE f = e
      BY <3>1, <1>2, <1>3 DEF Types, BatchTypes
    <3>2. CASE f # e /\ plan[f].key = k
      <4>1. plan'[f].attempt \in Nat /\ attempt'[k] \in Nat
        BY <3>2, <1>2, <1>3 DEF Types, RequestTypes, BatchTypes
      <4>2. plan'[f].key = k /\ plan'[f].attempt < attempt'[k]
        BY <3>2, <2>1, <1>2, <1>6
      <4>. QED
        BY <4>1, <4>2
    <3>3. CASE f # e /\ plan[f].key # k
      <4>1. Working(f) /\ plan'[f] = plan[f]
        BY <3>3, <2>1, <1>2 DEF Working
      <4>2. attempt'[plan[f].key] = attempt[plan[f].key]
        BY <3>3, <1>3 DEF Types, RequestTypes
      <4>. QED
        BY <4>1, <4>2, <1>5
    <3>. QED
      BY <3>1, <3>2, <3>3
  <2>2. \A f, g \in Exec \ {e} :
          Working(f)' /\ Working(g)' /\ plan'[f].key = plan'[g].key
            /\ plan'[f].attempt = plan'[g].attempt => f = g
    BY <1>2 DEF PlanInv, Working
  <2>3. \A f \in Exec \ {e} : Working(f)' /\ plan'[f].key = k =>
          plan'[f].attempt # plan'[e].attempt
    BY <1>2, <1>3, <1>6, SMT DEF Types, RequestTypes, BatchTypes
  <2>. QED
    BY <1>2, <2>1, <2>2, <2>3 DEF PlanInv
<1>8. CallingInv'
  <2>1. \A f \in Exec : reqPc'[f] = "calling" =>
          f # e /\ reqPc[f] = "calling" /\ plan[f].key \in Key \ {k}
    BY <1>1, <1>2 DEF CallingInv, Types, RequestTypes, None
  <2>. QED
    BY <1>2, <1>3, <2>1 DEF CallingInv, Mine
<1>9. AnsweredInv'
  <2>1. \A f \in Exec : reqPc'[f] = "answered" => f # e /\ Working(f)'
    BY <1>2 DEF Working
  <2>2. \A f \in Exec \ {e} : Working(f)' /\ plan[f].key = k => ~Mine(f)'
    BY <1>2, <1>3, <1>6, SMT DEF Mine, Types, RequestTypes, BatchTypes
  <2>. QED
    BY <1>2, <1>3, <2>1, <2>2 DEF AnsweredInv, Mine, Types, RequestTypes
<1>10. NumberInv'
  BY <1>1, <1>3 DEF NumberInv, None
<1>11. StoredAsGiven' /\ CurrentInv'
  BY <1>1, <1>3 DEF StoredAsGiven, Existing, None, CurrentInv
<1>12. PreparedInv'
  <2>1. ~dispatched'[k]
    BY DEF Types, BatchTypes
  <2>2. \A f \in Exec \ {e} : plan[f].key # k => Mine(f)' = Mine(f)
    BY <1>2, <1>3 DEF Mine, Types, RequestTypes
  <2>. QED
    BY <1>2, <1>3, <2>1, <2>2 DEF PreparedInv, Types, RequestTypes
<1>. QED
  BY <1>4, <1>7, <1>8, <1>9, <1>10, <1>11, <1>12

\* The dispatch is committed before the call.
LEMMA MarkStep ==
  ASSUME IssueInv, NEW e \in Exec, MarkDispatched(e)
  PROVE  IssueInv'
<1>. DEFINE k == plan[e].key
<1>1. CASE ~Attempting(e)
  <2>1. k \in Key
    BY DEF IssueInv, Types, RequestTypes
  <2>. QED
    BY <1>1, <2>1, TurnStep
       DEF MarkDispatched, GoesOn, batches, shipments, carrier
<1>2. CASE Attempting(e)
  <2>. USE <1>2 DEF IssueInv, MarkDispatched, Moves, shipments, carrier
  <2>1. k \in Key /\ batch[k] = "ALLOCATING" /\ Mine(e)
    BY DEF Attempting, Mine, Types, RequestTypes
  <2>2. /\ reqPc'[e] = "calling"
        /\ \A f \in Exec \ {e} : reqPc'[f] = reqPc[f]
        /\ UNCHANGED <<plan, answer>>
    BY DEF Types, RequestTypes
  <2>3. /\ dispatched'[k] = TRUE
        /\ \A j \in Key \ {k} : dispatched'[j] = dispatched[j]
        /\ UNCHANGED <<batch, attempt, invoice, revision, allotted, misread>>
    BY <2>1 DEF Types, BatchTypes
  <2>4. Types'
    <3>1. BatchTypes'
      BY DEF Types, BatchTypes
    <3>2. RequestTypes'
      BY DEF Types, RequestTypes
    <3>. QED
      BY <3>1, <3>2 DEF Types
  <2>5. Working(e) /\ \A f \in Exec : Working(f)' => Working(f)
    BY <2>2 DEF Working, MarkDispatched
  <2>6. PlanInv'
    BY <2>2, <2>3, <2>5 DEF PlanInv
  <2>7. AnsweredInv'
    BY <2>2, <2>3 DEF AnsweredInv, Mine
  <2>8. NumberInv'
    BY <2>3 DEF NumberInv
  <2>9. StoredAsGiven' /\ CurrentInv'
    BY <2>3 DEF StoredAsGiven, Existing, CurrentInv
  <2>10. \A f \in Exec \ {e} :
           Working(f) /\ Mine(f) => plan[f].key # k
    BY <2>1, <2>5 DEF PlanInv, Mine
  <2>11. PreparedInv'
    BY <2>2, <2>3, <2>10 DEF PreparedInv, Working, Mine, Types, RequestTypes
  <2>12. CallingInv'
    <3>1. k \notin misread => allotted[k] = 0
      BY <2>1 DEF PreparedInv, NumberInv, MarkDispatched
    <3>2. \A f \in Exec : dispatched[plan[f].key] => dispatched'[plan[f].key]
      BY <2>3 DEF Types, RequestTypes
    <3>. QED
      BY <2>1, <2>2, <2>3, <3>1, <3>2 DEF CallingInv, Mine
  <2>. QED
    BY <2>4, <2>6, <2>7, <2>8, <2>9, <2>11, <2>12
<1>. QED
  BY <1>1, <1>2
\* Only "unsent" is known of a dispatch that fails to commit.
LEMMA DispatchFailsStep ==
  ASSUME IssueInv, NEW e \in Exec, DispatchFails(e)
  PROVE  IssueInv'
<1>. DEFINE k == plan[e].key
<1>. USE DEF IssueInv, DispatchFails, shipments, carrier
<1>1. /\ reqPc'[e] = "answered" /\ answer'[e] = "unsent"
      /\ \A f \in Exec \ {e} : reqPc'[f] = reqPc[f] /\ answer'[f] = answer[f]
      /\ UNCHANGED plan
  BY DEF Types, RequestTypes
<1>2. UNCHANGED <<batch, attempt, invoice, revision, allotted, misread>>
  OBVIOUS
<1>3. k \in Key /\ Working(e)
  BY DEF Types, RequestTypes, Working
<1>4. \/ UNCHANGED dispatched
      \/ /\ Mine(e)
         /\ dispatched'[k] = TRUE
         /\ \A j \in Key \ {k} : dispatched'[j] = dispatched[j]
  BY <1>3 DEF Attempting, Mine, Types, BatchTypes
<1>5. Types'
  <2>1. dispatched' \in [Key -> BOOLEAN]
    BY DEF Types, BatchTypes
  <2>2. BatchTypes'
    BY <1>2, <2>1 DEF Types, BatchTypes
  <2>3. RequestTypes'
    BY <1>1 DEF Types, RequestTypes
  <2>. QED
    BY <2>2, <2>3 DEF Types
<1>6. \A f \in Exec : Working(f)' => Working(f)
  BY <1>1, <1>3 DEF Working
<1>7. PlanInv'
  BY <1>1, <1>2, <1>6 DEF PlanInv
<1>8. \A f \in Exec : dispatched[plan[f].key] => dispatched'[plan[f].key]
  BY <1>4 DEF Types, RequestTypes
<1>9. CallingInv' /\ AnsweredInv'
  BY <1>1, <1>2, <1>8 DEF CallingInv, AnsweredInv, Mine
<1>10. PreparedInv'
  <2>1. \A f \in Exec \ {e} :
          Working(f) /\ Mine(f) /\ Mine(e) => plan[f].key # k
    BY <1>3 DEF PlanInv, Mine
  <2>. QED
    BY <1>1, <1>2, <1>4, <2>1
       DEF PreparedInv, Working, Mine, Types, RequestTypes
<1>11. NumberInv' /\ StoredAsGiven' /\ CurrentInv'
  BY <1>2, <1>4 DEF NumberInv, StoredAsGiven, Existing, CurrentInv
<1>. QED
  BY <1>5, <1>7, <1>9, <1>10, <1>11

\* The carrier gives a batch that is being called for its first number.
LEMMA CallStep ==
  ASSUME IssueInv, NEW e \in Exec, Call(e)
  PROVE  IssueInv'
<1>. DEFINE k == plan[e].key
<1>. USE DEF IssueInv, Call, batches, shipments
<1>1. k \in Key /\ reqPc[e] = "calling" /\ Working(e)
  BY DEF Types, RequestTypes, Working
<1>2. PICK a \in Answers, given \in 0..1 :
        /\ a \in {"number", "surplus"} => given = 1
        /\ a = "refused" => given = 0
        /\ answer' = [answer EXCEPT ![e] = a]
        /\ allotted' = [allotted EXCEPT ![k] = @ + given]
        /\ misread' = IF a = "error" /\ given = 1
                        THEN misread \cup {k} ELSE misread
  OBVIOUS
<1>3. /\ reqPc'[e] = "answered" /\ answer'[e] = a
      /\ \A f \in Exec \ {e} : reqPc'[f] = reqPc[f] /\ answer'[f] = answer[f]
      /\ UNCHANGED <<plan, batch, attempt, dispatched, invoice, revision>>
  BY <1>2 DEF Types, RequestTypes
<1>4. /\ allotted'[k] = allotted[k] + given
      /\ allotted[k] \in Nat /\ given \in {0, 1}
      /\ \A j \in Key \ {k} :
           allotted'[j] = allotted[j] /\ (j \in misread' <=> j \in misread)
  BY <1>1, <1>2 DEF Types, BatchTypes
<1>5. k \notin misread' => k \notin misread /\ allotted[k] = 0
  BY <1>1, <1>2 DEF CallingInv
<1>6. Types'
  <2>1. allotted[k] + given \in Nat
    BY <1>4
  <2>2. allotted' = [allotted EXCEPT ![k] = allotted[k] + given]
    BY <1>2
  <2>3. BatchTypes'
    <3>1. allotted' \in [Key -> Nat]
      BY <2>1, <2>2 DEF Types, BatchTypes
    <3>2. UNCHANGED <<batch, attempt, dispatched, invoice, revision>>
      BY <1>3
    <3>. QED
      BY <3>1, <3>2, Zenon DEF Types, BatchTypes
  <2>4. a \in Answer
    BY DEF Answer
  <2>5. RequestTypes'
    BY <1>2, <1>3, <2>4 DEF Types, RequestTypes
  <2>. QED
    BY <2>3, <2>5 DEF Types
<1>7. \A f \in Exec \ {e} : Working(f) /\ Mine(f) => plan[f].key # k
  BY <1>1 DEF PlanInv, CallingInv, Mine
<1>8. PlanInv' /\ PreparedInv'
  BY <1>1, <1>3 DEF PlanInv, PreparedInv, Working, Mine
<1>9. CallingInv'
  <2>1. ASSUME NEW f \in Exec, reqPc'[f] = "calling"
        PROVE  f # e /\ reqPc[f] = "calling" /\ Mine(f)
                 /\ plan[f].key \in Key \ {k}
    BY <1>3, <1>7, <2>1 DEF CallingInv, Working, Types, RequestTypes
  <2>. QED
    BY <1>3, <1>4, <2>1 DEF CallingInv, Mine
<1>10. AnsweredInv'
  <2>1. a \in {"number", "surplus"} => allotted'[k] > 0
    BY <1>2, <1>4
  <2>2. ASSUME a \in {"refused", "error"}, k \notin misread'
        PROVE  allotted'[k] = 0
    <3>1. given = 0
      BY <1>2, <1>4, <2>2
    <3>. QED
      BY <1>4, <1>5, <2>2, <3>1
  <2>3. \A f \in Exec : allotted[plan[f].key] > 0 => allotted'[plan[f].key] > 0
    BY <1>4 DEF Types, RequestTypes, BatchTypes
  <2>4. \A f \in Exec \ {e} : reqPc'[f] = "answered" =>
          reqPc[f] = "answered" /\ Working(f)
    BY <1>3 DEF Working
  <2>5. \A f \in Exec \ {e} : Working(f) /\ Mine(f) =>
          /\ allotted'[plan[f].key] = allotted[plan[f].key]
          /\ plan[f].key \in misread' <=> plan[f].key \in misread
    BY <1>4, <1>7 DEF Types, RequestTypes
  <2>6. \A f \in Exec \ {e} : reqPc'[f] = "answered" =>
          /\ answer'[f] \in {"number", "surplus"} =>
               allotted'[plan'[f].key] > 0
          /\ Mine(f)' /\ answer'[f] \in {"refused", "error"} =>
               (plan'[f].key \notin misread' => allotted'[plan'[f].key] = 0)
    BY <1>3, <2>3, <2>4, <2>5 DEF AnsweredInv, Mine
  <2>. QED
    BY <1>3, <2>1, <2>2, <2>6 DEF AnsweredInv
<1>11. NumberInv'
  <2>1. batch[k] \in {"ALLOCATING", "REVIEW_REQUIRED"} /\ dispatched[k]
    BY <1>1 DEF CallingInv
  <2>2. k \notin misread' => allotted'[k] \in {0, 1}
    BY <1>4, <1>5
  <2>. QED
    BY <1>3, <1>4, <2>1, <2>2 DEF NumberInv
<1>12. StoredAsGiven'
  <2>1. \A j \in Key : allotted[j] > 0 => allotted'[j] > 0
    BY <1>4 DEF Types, BatchTypes
  <2>. QED
    BY <1>3, <2>1 DEF StoredAsGiven, Existing
<1>13. CurrentInv'
  BY <1>3 DEF CurrentInv, Existing
<1>. QED
  BY <1>6, <1>8, <1>9, <1>10, <1>11, <1>12, <1>13
\* An answer settles the batch if it is of its latest attempt.
LEMMA StoreStep ==
  ASSUME IssueInv, NEW e \in Exec, Store(e)
  PROVE  IssueInv'
<1>. DEFINE k == plan[e].key
<1>1. k \in Key
  BY DEF IssueInv, Types, RequestTypes
<1>2. CASE ~MayStore(e)
  BY <1>1, <1>2, TurnStep
     DEF Store, GoesOn, batches, shipments, carrier
<1>3. CASE MayStore(e)
  <2>. USE <1>3 DEF IssueInv, Store, carrier
  <2>1. /\ batch[k] = "ALLOCATING" /\ Mine(e)
        /\ dispatched[k] <=> answer[e] # "unsent"
    BY <1>1 DEF MayStore, Attempting, Mine, Types, BatchTypes
  <2>2. /\ batch' = [batch EXCEPT ![k] = Verdict(e)]
        /\ UNCHANGED <<attempt, dispatched, allotted, misread>>
    OBVIOUS
  <2>3. /\ reqPc'[e] = "issued"
        /\ \A f \in Exec \ {e} : /\ reqPc'[f] = reqPc[f]
                                 /\ plan'[f] = plan[f]
                                 /\ answer'[f] = answer[f]
    BY DEF GoesOn, Turns, Types, RequestTypes
  <2>4. Verdict(e) \in {"ALLOCATED", "FAILED", "REVIEW_REQUIRED"}
    BY DEF Verdict
  <2>5. /\ batch'[k] = Verdict(e)
        /\ \A j \in Key \ {k} : batch'[j] = batch[j]
    BY <1>1, <2>2 DEF Types, BatchTypes
  <2>6. \/ /\ Persists(e)
           /\ invoice' = [invoice EXCEPT ![k] = "ALLOCATED"]
           /\ revision' = [revision EXCEPT ![k] = plan[e].revision]
           /\ Verdict(e) # "FAILED"
        \/ /\ ~Persists(e)
           /\ UNCHANGED <<invoice, revision>>
           /\ Verdict(e) # "ALLOCATED"
    BY DEF Allocates, shipments, Verdict, Persists
  <2>7. Types'
    <3>1. invoice' \in [Key -> {None, "ALLOCATED", "REGISTERED", "REPLACED"}]
            /\ revision' = [j \in Key |-> revision'[j]]
      BY <2>6 DEF Types, BatchTypes
    <3>2. BatchTypes'
      BY <2>2, <2>4, <3>1 DEF Types, BatchTypes
    <3>3. RequestTypes'
      BY <1>1 DEF GoesOn, Turns, Types, RequestTypes, NoPlan
    <3>. QED
      BY <3>2, <3>3 DEF Types
  <2>8. PlanInv' /\ PreparedInv'
    BY <2>2, <2>3 DEF PlanInv, PreparedInv, Working, Mine
  <2>9. AnsweredInv'
    BY <2>2, <2>3 DEF AnsweredInv, Mine
  <2>10. CallingInv'
    <3>1. \A f \in Exec \ {e} :
            Working(f) /\ Mine(f) => plan[f].key # k
      BY <2>1 DEF PlanInv, Mine, Working
    <3>2. ASSUME NEW f \in Exec, reqPc'[f] = "calling"
          PROVE  f # e /\ reqPc[f] = "calling" /\ plan[f].key \in Key \ {k}
      BY <2>3, <3>1, <3>2 DEF CallingInv, Working, Types, RequestTypes
    <3>. QED
      BY <2>2, <2>3, <2>5, <3>2 DEF CallingInv, Mine
  <2>11. NumberInv'
    <3>1. Verdict(e) = "FAILED" =>
            answer[e] \in {"refused", "error", "unsent"}
      BY DEF Verdict
    <3>2. ASSUME k \notin misread, Verdict(e) = "FAILED"
          PROVE  allotted[k] = 0
      <4>1. CASE answer[e] = "unsent"
        BY <2>1, <3>2, <4>1, <1>1 DEF NumberInv
      <4>2. CASE answer[e] \in {"refused", "error"}
        BY <2>1, <3>2, <4>2 DEF AnsweredInv
      <4>. QED
        BY <3>1, <3>2, <4>1, <4>2
    <3>. QED
      BY <2>2, <2>4, <2>5, <3>2 DEF NumberInv
  <2>12. StoredAsGiven'
    <3>1. invoice[k] = None
      BY <1>1, <2>1 DEF StoredAsGiven
    <3>2. CASE Persists(e)
      <4>1. /\ invoice'[k] = "ALLOCATED"
            /\ revision'[k] = plan[e].revision
            /\ \A j \in Key \ {k} :
                 invoice'[j] = invoice[j] /\ revision'[j] = revision[j]
        BY <1>1, <2>6, <3>2 DEF Types, BatchTypes
      <4>2. allotted[k] > 0
        BY <3>2 DEF Persists, AnsweredInv
      <4>3. Verdict(e) # "FAILED"
        BY <2>6, <3>2
      <4>4. \A j \in Existing : revision[j] # plan[e].revision
        BY <3>2 DEF Persists, RevisionFree
      <4>. QED
        BY <1>1, <2>2, <2>4, <2>5, <3>1, <4>1, <4>2, <4>3, <4>4
           DEF StoredAsGiven, Existing, None
    <3>3. CASE ~Persists(e)
      BY <1>1, <2>2, <2>5, <2>6, <3>1, <3>3 DEF StoredAsGiven, Existing
    <3>. QED
      BY <3>2, <3>3
  <2>13. CurrentInv'
    <3>1. CASE Persists(e)
      <4>1. current' = IF k = Initial THEN k ELSE current
        BY <3>1 DEF Allocates
      <4>2. invoice'[k] # None
        BY <1>1, <2>6, <3>1 DEF Types, BatchTypes, None
      <4>3. \A j \in Key : invoice[j] # None => invoice'[j] # None
        BY <2>6, <3>1 DEF Types, BatchTypes, None
      <4>. QED
        BY <1>1, <4>1, <4>2, <4>3 DEF CurrentInv, Existing
    <3>2. CASE ~Persists(e)
      BY <3>2 DEF CurrentInv, Existing, shipments
    <3>. QED
      BY <3>1, <3>2
  <2>. QED
    BY <2>7, <2>8, <2>9, <2>10, <2>11, <2>12, <2>13
<1>. QED
  BY <1>2, <1>3

\* An answer that cannot be stored becomes uncertain.
LEMMA StoreFailsStep ==
  ASSUME IssueInv, NEW e \in Exec, StoreFails(e)
  PROVE  IssueInv'
<1>. USE DEF IssueInv, StoreFails, batches, shipments, carrier
<1>1. answer'[e] = "uncertain" /\ \A f \in Exec \ {e} : answer'[f] = answer[f]
  BY DEF Types, RequestTypes
<1>2. Types'
  BY DEF Types, BatchTypes, RequestTypes, Answer
<1>3. PlanInv' /\ PreparedInv' /\ CallingInv' /\ NumberInv' /\ StoredAsGiven'
        /\ CurrentInv'
  BY DEF PlanInv, PreparedInv, CallingInv, NumberInv, StoredAsGiven, Existing,
     CurrentInv, Working, Mine
<1>4. AnsweredInv'
  BY <1>1 DEF AnsweredInv, Mine
<1>. QED
  BY <1>2, <1>3, <1>4

\* Time passes for a batch.
LEMMA AgesStep ==
  ASSUME IssueInv, NEW k \in Key, BatchAges(k)
  PROVE  IssueInv'
  BY DEF BatchAges, IssueInv, Types, BatchTypes, RequestTypes, PlanInv,
     PreparedInv, CallingInv, AnsweredInv, NumberInv, StoredAsGiven, Existing,
     CurrentInv, Working, Mine, shipments, requests, carrier

\* The recovery lets a batch be tried again only if it was not dispatched.
LEMMA RecoverStep ==
  ASSUME IssueInv, NEW k \in Key, Recover(k)
  PROVE  IssueInv'
<1>. USE DEF IssueInv, Recover, shipments, requests, carrier
<1>1. /\ batch'[k] = IF dispatched[k] THEN "REVIEW_REQUIRED" ELSE "FAILED"
      /\ \A j \in Key \ {k} : batch'[j] = batch[j]
  BY DEF Recovered, Types, BatchTypes
<1>2. Types'
  <2>1. BatchTypes'
    BY DEF Recovered, Types, BatchTypes
  <2>2. RequestTypes'
    BY DEF Types, RequestTypes
  <2>. QED
    BY <2>1, <2>2 DEF Types
<1>3. PlanInv' /\ PreparedInv' /\ AnsweredInv'
  BY DEF PlanInv, PreparedInv, AnsweredInv, Working, Mine
<1>4. CallingInv'
  BY <1>1 DEF CallingInv, Mine, Types, RequestTypes
<1>5. NumberInv'
  BY <1>1 DEF NumberInv
<1>6. StoredAsGiven'
  <2>1. invoice[k] = None
    BY DEF StoredAsGiven
  <2>. QED
    BY <1>1, <2>1 DEF StoredAsGiven, Existing
<1>7. CurrentInv'
  BY DEF CurrentInv, Existing
<1>. QED
  BY <1>2, <1>3, <1>4, <1>5, <1>6, <1>7

\* The rest of the system changes neither batches nor which invoices exist.
LEMMA RestStep ==
  ASSUME IssueInv, Rest
  PROVE  IssueInv'
<1>. USE DEF IssueInv, batches, carrier
<1>1. UNCHANGED <<batch, attempt, dispatched, revision, reqPc, plan, answer,
                  allotted, misread>>
  BY DEF Rest, Regroup, Registered, Switched, Elsewhere, shipments, requests
<1>2. \/ UNCHANGED <<invoice, current>>
      \/ /\ current \in Existing
         /\ current' = current \/ current' \in Existing
         /\ \E i \in {"REGISTERED", "REPLACED"} :
              invoice' = [invoice EXCEPT ![current] = i]
  BY DEF Rest, Regroup, Registered, Switched, Elsewhere, shipments, requests,
     CurrentInv, Existing, None
<1>3. /\ invoice' \in [Key -> {None, "ALLOCATED", "REGISTERED", "REPLACED"}]
      /\ Existing' = Existing
  BY <1>2 DEF Types, BatchTypes, Existing, None
<1>4. Types'
  BY <1>1, <1>3 DEF Types, BatchTypes, RequestTypes
<1>5. PlanInv' /\ PreparedInv' /\ CallingInv' /\ AnsweredInv' /\ NumberInv'
  BY <1>1 DEF PlanInv, PreparedInv, CallingInv, AnsweredInv, NumberInv,
     Working, Mine
<1>6. StoredAsGiven'
  <2>1. \A k \in Key : invoice'[k] # None <=> invoice[k] # None
    BY <1>3 DEF Existing
  <2>. QED
    BY <1>1, <1>3, <2>1 DEF StoredAsGiven
<1>7. CurrentInv'
  BY <1>2, <1>3 DEF CurrentInv
<1>. QED
  BY <1>4, <1>5, <1>6, <1>7

LEMMA IssueNextStep == IssueInv /\ [IssueNext]_issueVars => IssueInv'
<1>. SUFFICES ASSUME IssueInv, [IssueNext]_issueVars PROVE IssueInv'
  OBVIOUS
<1>1. ASSUME NEW e \in Exec, Issue(e) PROVE IssueInv'
  BY <1>1, MarkStep, DispatchFailsStep, CallStep, StoreStep, StoreFailsStep
     DEF Issue
<1>2. ASSUME NEW e \in Exec, Returns(e) \/ IssueDies(e) PROVE IssueInv'
  BY <1>2, TurnStep DEF Returns, IssueDies, Stops, GoesOn, Breaks
<1>3. ASSUME NEW e \in Exec, NEW k \in Key, Asks(e, k) PROVE IssueInv'
  BY <1>3, PrepareStep, TurnStep DEF Asks, Replay, GoesOn, Working
<1>4. CASE UNCHANGED issueVars
  <2>. USE <1>4 DEF issueVars, batches, shipments, requests, carrier, IssueInv
  <2>1. Types'
    BY DEF Types, BatchTypes, RequestTypes
  <2>2. PlanInv' /\ PreparedInv' /\ CallingInv' /\ AnsweredInv'
    BY DEF PlanInv, PreparedInv, CallingInv, AnsweredInv, Working, Mine
  <2>3. NumberInv' /\ StoredAsGiven' /\ CurrentInv'
    BY DEF NumberInv, StoredAsGiven, Existing, CurrentInv
  <2>. QED
    BY <2>1, <2>2, <2>3
<1>. QED
  BY <1>1, <1>2, <1>3, <1>4, AgesStep, RecoverStep, RestStep DEF IssueNext

\* The inductive invariant of the issues holds in every behaviour.
THEOREM IssuesInductive == IssueSpec => []IssueInv
  BY InitIssueInv, IssueNextStep, PTL DEF IssueSpec

\* executeIssue commits allocation_request_dispatched before it calls, and
\* prepareIssue and the recovery go by it: no batch gets a second number.
THEOREM RetryIsSafeAlways == IssueSpec => []RetryIsSafe
<1>1. IssueInv => RetryIsSafe
  BY DEF IssueInv, NumberInv, RetryIsSafe, None
<1>. QED
  BY <1>1, IssuesInductive, PTL

\* finalizeAllocation stores a shipment with its batch's result, for a number
\* that was given and with a revision of its own.
THEOREM StoredAsGivenAlways == IssueSpec => []StoredAsGiven
<1>1. IssueInv => StoredAsGiven
  BY DEF IssueInv
<1>. QED
  BY <1>1, IssuesInductive, PTL
-----------------------------------------------------------------------------
(* The replacement.                                                          *)

WorkTypes ==
  /\ group \in {"FROZEN", "READY", "ON_HOLD"}
  /\ work \in [Work -> {None, "WAITING_MANUAL", "PROCESSING", "WAITING_LABEL",
                        "REVIEW_REQUIRED", "COMPLETED", "CANCELED"}]
  /\ stage \in [Work -> {None, "OLD_INVOICE_HANDLING", "ALLOCATION",
                         "CHANNEL_UPDATE", "CARRIER_REGISTRATION",
                         "LABEL_PRINT", "FINALIZE"}]
  /\ old \in [Work -> Key \cup {None}]
  /\ token \in [Work -> Exec \cup {None}]
  /\ stale \in [Work -> BOOLEAN]
  /\ candidate \in [Work -> BOOLEAN]
  /\ updated \in [Work -> BOOLEAN]
  /\ write \in [Work -> {None, "SENDING", "RETRYABLE", "REVIEW", "COMPLETED"}]
  /\ caller \in [Work -> Exec \cup {None}]
  /\ register \in [Key -> {None, "PENDING", "SUBMITTING", "REGISTERED",
                           "BLOCKED"}]
  /\ told \in SUBSET Work

\* Where a request works on a replacement, and not on an issue.
Elsewheres == {"continuing", "allocating", "submitting", "writing", "sending",
               "finalizing", "settling", "canceling", "confirming", "resuming"}

\* Where it has a candidate to tell the channel of.
Telling == {"submitting", "writing", "sending", "finalizing", "settling"}

\* What a request has, and which work it is at.  Only the request that a
\* write goes by calls the channel.
Requested(e) ==
  /\ reqPc[e] \in Elsewheres => plan[e].key \in Work
  /\ reqPc[e] # "answered" => answer[e] = None
  /\ \A k \in Work : reqPc[e] # "idle" /\ plan[e].key = k =>
       /\ work[k] # None
       /\ reqPc[e] \in Telling => candidate[k]
       /\ reqPc[e] = "sending" => write[k] = "SENDING" /\ caller[k] = e

RequestInv == \A e \in Exec : Requested(e)

\* What a request that prepared an issue goes by.
ExpectInv ==
  \A e \in Exec : Working(e) =>
    /\ plan[e].revision \in Nat
    /\ plan[e].key = Initial => plan[e].expected = None
    /\ plan[e].key # Initial =>
         plan[e].expected \in Existing
         /\ revision[plan[e].expected] < plan[e].revision

\* There is a highest revision.
HighestInv ==
  /\ \A s \in Existing : revision[s] \in Nat
  /\ \E h \in Nat : /\ h \in {revision[s] : s \in Existing} \cup {0}
                    /\ \A s \in Existing : revision[s] <= h

\* One work is open while the group is held, and current is what it says.
HoldInv ==
  /\ \A j, k \in Work : Open(j) /\ Open(k) => j = k
  /\ \A k \in Work : Open(k) =>
       group = "ON_HOLD" /\ current = IF updated[k] THEN k ELSE old[k]
  /\ group = "ON_HOLD" => \E k \in Work : Open(k)
  /\ current = None => group = "FROZEN"

Early == {"OLD_INVOICE_HANDLING", "ALLOCATION"}

\* How far a work has come.  The candidate is the point of no return: before
\* it nobody tells the channel, and after it nobody cancels.
Staged(k) ==
  /\ work[k] = None => old[k] = None /\ invoice[k] = None
  /\ token[k] # None => Open(k) /\ ~updated[k]
  /\ stale[k] => token[k] # None
  /\ work[k] = "WAITING_MANUAL" => stage[k] = "OLD_INVOICE_HANDLING"
  /\ work[k] = "COMPLETED" => updated[k]
  /\ candidate[k] =>
       /\ batch[k] = "ALLOCATED"
       /\ work[k] \notin {None, "CANCELED", "WAITING_MANUAL"}
       /\ stage[k] \notin Early \cup {None}
  /\ ~candidate[k] => stage[k] \in Early \cup {None}
  /\ updated[k] => /\ candidate[k] /\ stage[k] # "CHANNEL_UPDATE"
                   /\ write[k] = "COMPLETED"
  /\ write[k] # None => candidate[k]
  /\ write[k] = "COMPLETED" => updated[k]
  /\ k \in told => candidate[k]
  /\ caller[k] # None <=> write[k] = "SENDING"

StageInv == \A k \in Work : Staged(k)

\* What the owner of a work finds it to be.
Owned(e, k) ==
  reqPc[e] # "idle" /\ plan[e].key = k /\ token[k] = e =>
    /\ reqPc[e] = "confirming" => work[k] = "WAITING_MANUAL"
    /\ reqPc[e] \in {"continuing", "resuming"} =>
         stage[k] \in {"ALLOCATION", "CHANNEL_UPDATE"}
    /\ reqPc[e] \in {"allocating", "issued"} \/ Working(e) =>
         stage[k] = "ALLOCATION"
    /\ reqPc[e] = "canceling" => stage[k] \in Early

OwnerInv == \A e \in Exec, k \in Work : Owned(e, k)

\* What the invoices are.
InvoiceInv ==
  /\ current # None => /\ invoice[current] \in {"ALLOCATED", "REGISTERED"}
                       /\ current \in Work => updated[current]
  /\ \A k \in Work : ~updated[k] => invoice[k] \in {None, "ALLOCATED"}
  /\ \A k \in Work : Open(k) /\ ~updated[k] /\ k \in Existing =>
       revision[k] > revision[old[k]]

IInv ==
  /\ IssueInv /\ WorkTypes
  /\ RequestInv /\ ExpectInv /\ HighestInv
  /\ HoldInv /\ StageInv /\ OwnerInv /\ InvoiceInv
  /\ OldIsHandled /\ NumbersAccountedFor

LEMMA InitIInv == Init => IInv
<1>. SUFFICES ASSUME Init PROVE IInv
  OBVIOUS
<1>1. IssueInv
  BY InitIssueInv DEF Init
<1>2. Existing = {}
  BY DEF Init, IssueInit, Existing
<1>3. WorkTypes
  BY DEF Init, IssueInit, WorkTypes
<1>4. RequestInv /\ ExpectInv /\ OwnerInv
  BY DEF Init, IssueInit, RequestInv, Requested, ExpectInv, OwnerInv, Owned,
     Working, Elsewheres
<1>5. HighestInv
  BY <1>2 DEF HighestInv
<1>6. \A k \in Work : ~Open(k)
  BY DEF Init, Open
<1>7. HoldInv /\ StageInv /\ InvoiceInv
  BY <1>6 DEF Init, IssueInit, HoldInv, StageInv, Staged, InvoiceInv,
     Early, None, Work
<1>8. OldIsHandled /\ NumbersAccountedFor
  BY <1>2, <1>6 DEF OldIsHandled, NumbersAccountedFor
<1>. QED
  BY <1>1, <1>3, <1>4, <1>5, <1>7, <1>8 DEF IInv

-----------------------------------------------------------------------------
(* What steps leave alone.                                                   *)

\* A request has turned from one place to another, and no other has.
Aside(e, to, k) ==
  /\ reqPc'[e] = to
  /\ plan'[e].key = k
  /\ answer'[e] = None
  /\ \A f \in Exec \ {e} : /\ reqPc'[f] = reqPc[f]
                           /\ plan'[f] = plan[f]
                           /\ answer'[f] = answer[f]
  /\ RequestTypes'

LEMMA Turned ==
  ASSUME IInv, NEW e \in Exec, NEW to, NEW k \in Key, Turns(e, to, k)
  PROVE  Aside(e, to, k)
BY DEF IInv, IssueInv, Types, RequestTypes, Turns, Aside, NoPlan

LEMMA Moved ==
  ASSUME IInv, NEW e \in Exec, NEW to, reqPc[e] # "answered", Moves(e, to)
  PROVE  Aside(e, to, plan[e].key)
BY DEF IInv, IssueInv, Types, RequestTypes, Moves, Aside, RequestInv, Requested

\* A step that leaves the issues alone.
Apart ==
  /\ UNCHANGED <<batch, attempt, dispatched, revision, allotted, misread>>
  /\ invoice' \in [Key -> {None, "ALLOCATED", "REGISTERED", "REPLACED"}]
  /\ Existing' = Existing
  /\ CurrentInv'
  /\ RequestTypes'
  /\ \A f \in Exec : Working(f)' =>
       /\ reqPc'[f] = reqPc[f]
       /\ plan'[f] = plan[f]
       /\ answer'[f] = answer[f]

LEMMA ApartStep ==
  ASSUME IInv, Apart
  PROVE  IssueInv' /\ ExpectInv' /\ HighestInv'
<1>. USE DEF IInv, IssueInv, Apart
<1>1. Types'
  BY DEF Types, BatchTypes
<1>2. PlanInv' /\ PreparedInv' /\ CallingInv' /\ AnsweredInv'
  BY DEF PlanInv, PreparedInv, CallingInv, AnsweredInv, Working, Mine
<1>3. NumberInv'
  BY DEF NumberInv
<1>4. StoredAsGiven'
  <2>1. \A k \in Key : invoice'[k] # None <=> invoice[k] # None
    BY DEF Existing
  <2>. QED
    BY <2>1 DEF StoredAsGiven
<1>5. ExpectInv' /\ HighestInv'
  BY DEF ExpectInv, HighestInv, Working
<1>. QED
  BY <1>1, <1>2, <1>3, <1>4, <1>5

LEMMA AsideApart ==
  ASSUME IInv, NEW e \in Exec, NEW to, NEW k, Aside(e, to, k),
         to \notin {"prepared", "calling", "answered"},
         UNCHANGED <<batches, shipments, current, carrier>>
  PROVE  IssueInv' /\ ExpectInv' /\ HighestInv'
<1>1. Apart
  BY DEF IInv, IssueInv, Types, BatchTypes, Aside, Apart, Working, CurrentInv,
     Existing, batches, shipments, carrier
<1>. QED
  BY <1>1, ApartStep

\* A step that neither opens or closes a work, nor changes an invoice.
Keeps ==
  /\ UNCHANGED <<invoice, revision, current, group, updated, old>>
  /\ confirmed \subseteq confirmed'
  /\ \A k \in Work :
       /\ Open(k)' <=> Open(k)
       /\ work[k] = "CANCELED" => work'[k] = "CANCELED"
       /\ stage'[k] = stage[k] \/ stage[k] # "OLD_INVOICE_HANDLING"
            \/ k \in confirmed'

LEMMA KeepsStep ==
  ASSUME IInv, Keeps
  PROVE  HoldInv' /\ InvoiceInv' /\ OldIsHandled' /\ NumbersAccountedFor'
<1>. USE DEF IInv, Keeps
<1>1. Existing' = Existing
  BY DEF Existing
<1>2. HoldInv'
  BY DEF HoldInv
<1>3. InvoiceInv'
  BY <1>1 DEF InvoiceInv
<1>4. OldIsHandled'
  BY DEF OldIsHandled
<1>5. NumbersAccountedFor'
  BY <1>1 DEF NumbersAccountedFor
<1>. QED
  BY <1>2, <1>3, <1>4, <1>5

\* A step changes no other work than k.
OnlyAt(k) ==
  /\ UNCHANGED batch
  /\ \A j \in Work \ {k} :
       /\ work'[j] = work[j]
       /\ stage'[j] = stage[j]
       /\ old'[j] = old[j]
       /\ token'[j] = token[j]
       /\ stale'[j] = stale[j]
       /\ candidate'[j] = candidate[j]
       /\ updated'[j] = updated[j]
       /\ write'[j] = write[j]
       /\ caller'[j] = caller[j]
       /\ invoice[j] = None => invoice'[j] = None
       /\ j \in told' => j \in told

\* A request stands where it stood, and what it goes by in k is as it was.
Steady(f, k) ==
  /\ reqPc'[f] = reqPc[f]
  /\ plan'[f] = plan[f]
  /\ answer'[f] = answer[f]
  /\ reqPc[f] = "sending" /\ plan[f].key = k =>
       write'[k] = write[k] /\ caller'[k] = caller[k]
  /\ \/ token'[k] # f
     \/ token'[k] = token[k] /\ work'[k] = work[k] /\ stage'[k] = stage[k]

LEMMA AtWork ==
  ASSUME IInv, NEW k \in Work, OnlyAt(k), Staged(k)',
         work'[k] # None, candidate[k] => candidate'[k],
         \A f \in Exec : \/ Steady(f, k)
                         \/ Requested(f)' /\ \A j \in Work : Owned(f, j)'
  PROVE  RequestInv' /\ StageInv' /\ OwnerInv'
<1>1. StageInv'
  <2>1. ASSUME NEW j \in Work \ {k} PROVE Staged(j)'
    BY DEF IInv, StageInv, Staged, OnlyAt, Open
  <2>. QED
    BY <2>1 DEF StageInv
<1>2. ASSUME NEW f \in Exec, Steady(f, k) PROVE Requested(f)'
  <2>1. Requested(f)
    BY DEF IInv, RequestInv
  <2>. QED
    BY <1>2, <2>1 DEF Requested, Steady, OnlyAt
<1>3. ASSUME NEW f \in Exec, Steady(f, k), NEW j \in Work PROVE Owned(f, j)'
  <2>1. Owned(f, j)
    BY DEF IInv, OwnerInv
  <2>. QED
    BY <1>3, <2>1 DEF Owned, Steady, OnlyAt, Working
<1>. QED
  BY <1>1, <1>2, <1>3 DEF RequestInv, OwnerInv

\* A request stands still where no work is disturbed.
LEMMA StandStep ==
  ASSUME IInv, NEW e \in Exec, NEW to, NEW k \in Key, Aside(e, to, k),
         to \notin {"prepared", "calling", "answered"},
         UNCHANGED <<batches, shipments, current, group, carrier, works,
                     writes, registration, confirmed>>,
         Requested(e)', \A j \in Work : Owned(e, j)'
  PROVE  IInv'
<1>. USE DEF works, writes, registration
<1>1. IssueInv' /\ ExpectInv' /\ HighestInv'
  BY AsideApart
<1>2. Keeps
  BY DEF Keeps, shipments, Open
<1>3. WorkTypes'
  BY DEF IInv, WorkTypes
<1>4. StageInv'
  BY DEF IInv, StageInv, Staged, Open, batches, shipments
<1>5. ASSUME NEW f \in Exec \ {e} PROVE Requested(f)' /\ \A j \in Work : Owned(f, j)'
  <2>1. Requested(f) /\ \A j \in Work : Owned(f, j)
    BY DEF IInv, RequestInv, OwnerInv
  <2>. QED
    BY <2>1 DEF Aside, Requested, Owned, Working
<1>. QED
  BY <1>1, <1>2, <1>3, <1>4, <1>5, KeepsStep DEF IInv, RequestInv, OwnerInv

-----------------------------------------------------------------------------
(* What persons ask for.                                                     *)

LEMMA DiesStep ==
  ASSUME IInv, NEW e \in Exec, Dies(e)
  PROVE  IInv'
<1>1. Aside(e, "idle", Initial)
  BY Turned DEF Dies, Breaks
<1>2. Requested(e)' /\ \A j \in Work : Owned(e, j)'
  BY <1>1 DEF Aside, Requested, Owned, Elsewheres
<1>. QED
  BY <1>1, <1>2, StandStep DEF Dies, replaceVars

LEMMA IssuedFirstStep ==
  ASSUME IInv, NEW e \in Exec, IssuedFirst(e)
  PROVE  IInv'
<1>1. Aside(e, "idle", Initial)
  BY Turned DEF IssuedFirst, Stops, GoesOn
<1>2. Requested(e)' /\ \A j \in Work : Owned(e, j)'
  BY <1>1 DEF Aside, Requested, Owned, Elsewheres
<1>. QED
  BY <1>1, <1>2, StandStep DEF IssuedFirst, replaceVars

\* A batch that has not failed is answered with what became of it.
LEMMA ReplayStep ==
  ASSUME IInv, NEW e \in Exec, NEW k \in Key, Replay(e, k),
         UNCHANGED replaceVars,
         \/ k \notin Work
         \/ reqPc[e] = "allocating" /\ plan[e].key = k
  PROVE  IInv'
<1>1. Aside(e, "issued", k)
  BY Turned DEF Replay, GoesOn
<1>2. Requested(e) /\ \A j \in Work : Owned(e, j)
  BY DEF IInv, RequestInv, OwnerInv
<1>3. Requested(e)' /\ \A j \in Work : Owned(e, j)'
  BY <1>1, <1>2
     DEF Aside, Requested, Owned, Elsewheres, Telling, Working, replaceVars, works,
     writes
<1>. QED
  BY <1>1, <1>3, StandStep DEF Replay, replaceVars

\* A request that may have a work claims its token.
LEMMA ClaimStep ==
  ASSUME IInv, NEW e \in Exec, NEW k \in Work, NEW to, Claims(e, k, to),
         Open(k), ~updated[k],
         to \in {"confirming", "resuming", "canceling"},
         to = "confirming" => work[k] = "WAITING_MANUAL",
         to = "resuming" => stage[k] \in {"ALLOCATION", "CHANNEL_UPDATE"},
         to = "canceling" => stage[k] \in Early,
         UNCHANGED <<batches, shipments, current, group, carrier, work, stage,
                     old, candidate, updated, writes, registration,
                     confirmed>>
  PROVE  IInv'
<1>. USE DEF writes, registration
<1>1. k \in Key
  BY DEF Work
<1>2. Aside(e, to, k)
  BY <1>1, Turned DEF Claims, GoesOn
<1>3. IssueInv' /\ ExpectInv' /\ HighestInv'
  BY <1>1, <1>2, AsideApart
<1>4. /\ token'[k] = e
      /\ stale'[k] = FALSE
      /\ \A j \in Work \ {k} : token'[j] = token[j] /\ stale'[j] = stale[j]
  BY DEF IInv, WorkTypes, Claims
<1>5. WorkTypes'
  BY DEF IInv, WorkTypes, Claims
<1>6. Keeps
  BY DEF Keeps, shipments, Open
<1>7. OnlyAt(k)
  BY <1>4 DEF OnlyAt, batches, shipments
<1>8. Staged(k)'
  BY <1>4 DEF IInv, StageInv, Staged, Open, batches, shipments
<1>9. work'[k] # None /\ candidate'[k] = candidate[k]
  BY DEF Open
<1>10. \A f \in Exec \ {e} : Steady(f, k)
  BY <1>2, <1>4 DEF Aside, Steady
<1>11. Requested(e)' /\ \A j \in Work : Owned(e, j)'
  BY <1>2, <1>9
     DEF Aside, Requested, Owned, Elsewheres, Telling, Working
<1>. QED
  BY <1>3, <1>5, <1>6, <1>7, <1>8, <1>9, <1>10, <1>11, AtWork, KeepsStep
     DEF IInv

LEMMA ClaimConfirmStep ==
  ASSUME IInv, NEW e \in Exec, NEW k \in Work, ClaimConfirm(e, k)
  PROVE  IInv'
<1>1. Open(k) /\ ~updated[k]
  BY DEF IInv, StageInv, Staged, ClaimConfirm, Open, None
<1>. QED
  BY <1>1, ClaimStep DEF ClaimConfirm

LEMMA ResumeStep ==
  ASSUME IInv, NEW e \in Exec, NEW k \in Work, Resume(e, k)
  PROVE  IInv'
<1>1. Open(k) /\ ~updated[k]
  BY DEF IInv, StageInv, Staged, Resume, Open, None, Early
<1>. QED
  BY <1>1, ClaimStep DEF Resume

LEMMA ClaimCancelStep ==
  ASSUME IInv, NEW e \in Exec, NEW k \in Work, ClaimCancel(e, k)
  PROVE  IInv'
<1>. QED
  BY ClaimStep DEF ClaimCancel, MayCancel, Early

\* The owner of a work takes it further, or gives it up.
LEMMA OwnerStep ==
  ASSUME IInv, NEW e \in Exec, NEW k \in Work, NEW to, NEW to2 \in Key,
         Aside(e, to, to2), to \notin {"prepared", "calling", "answered"},
         token[k] = e, token'[k] \in {e, None}, OnlyAt(k), Keeps, WorkTypes',
         work'[k] # None, candidate[k] => candidate'[k],
         Staged(k)', Requested(e)', \A j \in Work : Owned(e, j)',
         UNCHANGED <<batches, shipments, current, group, carrier, writes>>
  PROVE  IInv'
<1>1. IssueInv' /\ ExpectInv' /\ HighestInv'
  BY AsideApart
<1>2. \A f \in Exec \ {e} : Steady(f, k)
  <2>1. \A f \in Exec : f # None
    OBVIOUS
  <2>. QED
    BY <2>1 DEF Aside, Steady, writes
<1>. QED
  BY <1>1, <1>2, AtWork, KeepsStep DEF IInv

\* Whoever owns a work finds it open, and not taken over by the channel.
LEMMA OwnerKnows ==
  ASSUME IInv, NEW e \in Exec, Owns(e),
         reqPc[e] \in Elsewheres \/ (reqPc[e] = "issued" /\ plan[e].key \in Work)
  PROVE  \E k \in Work :
           /\ k = plan[e].key
           /\ token[k] = e /\ Open(k) /\ ~updated[k] /\ work[k] # None
           /\ Staged(k) /\ Requested(e) /\ Owned(e, k)
<1>1. plan[e].key \in Work /\ Requested(e)
  BY DEF IInv, RequestInv, Requested
<1>2. token[plan[e].key] = e /\ e # None
  BY DEF Owns
<1>. QED
  BY <1>1, <1>2 DEF IInv, StageInv, Staged, OwnerInv, Open

LEMMA ConfirmStep ==
  ASSUME IInv, NEW e \in Exec, Confirm(e)
  PROVE  IInv'
<1>1. PICK k \in Work :
        /\ k = plan[e].key
        /\ token[k] = e /\ Open(k) /\ ~updated[k]
        /\ Staged(k) /\ Requested(e) /\ Owned(e, k)
        /\ reqPc[e] = "confirming"
  BY OwnerKnows DEF Confirm, Elsewheres
<1>2. Aside(e, "continuing", k)
  BY <1>1, Moved DEF Confirm
<1>3. work[k] = "WAITING_MANUAL"
  BY <1>1 DEF Owned
<1>4. /\ work'[k] = "PROCESSING" /\ stage'[k] = "ALLOCATION"
      /\ \A j \in Work \ {k} : work'[j] = work[j] /\ stage'[j] = stage[j]
  BY <1>1 DEF Confirm, IInv, WorkTypes
<1>. USE DEF Confirm, works, writes, registration, shipments, batches
<1>5. WorkTypes'
  BY <1>1 DEF IInv, WorkTypes
<1>6. OnlyAt(k) /\ Keeps
  BY <1>1, <1>4 DEF OnlyAt, Keeps, Open, None
<1>7. Staged(k)'
  BY <1>1, <1>3, <1>4 DEF Staged, Open, Early, None
<1>8. Requested(e)' /\ \A j \in Work : Owned(e, j)'
  BY <1>1, <1>2, <1>4
     DEF Aside, Requested, Owned, Elsewheres, Telling, Working, None
<1>9. k \in Key /\ work'[k] # None /\ token'[k] = e /\ candidate'[k] = candidate[k]
  BY <1>1, <1>4 DEF Work, None
<1>. QED
  BY <1>1, <1>2, <1>5, <1>6, <1>7, <1>8, <1>9, OwnerStep

LEMMA ResumedStep ==
  ASSUME IInv, NEW e \in Exec, Resumed(e)
  PROVE  IInv'
<1>1. PICK k \in Work :
        /\ k = plan[e].key
        /\ token[k] = e /\ Open(k) /\ ~updated[k]
        /\ Staged(k) /\ Requested(e) /\ Owned(e, k)
        /\ reqPc[e] = "resuming"
  BY OwnerKnows DEF Resumed, Elsewheres
<1>2. Aside(e, "continuing", k)
  BY <1>1, Moved DEF Resumed
<1>4. /\ work'[k] = "PROCESSING"
      /\ \A j \in Work \ {k} : work'[j] = work[j]
  BY <1>1 DEF Resumed, IInv, WorkTypes
<1>. USE DEF Resumed, works, writes, registration, shipments, batches
<1>5. WorkTypes'
  BY <1>1 DEF IInv, WorkTypes
<1>6. OnlyAt(k) /\ Keeps
  BY <1>1, <1>4 DEF OnlyAt, Keeps, Open, None
<1>7. Staged(k)'
  BY <1>1, <1>4 DEF Staged, Open, Early, None
<1>8. Requested(e)' /\ \A j \in Work : Owned(e, j)'
  BY <1>1, <1>2, <1>4
     DEF Aside, Requested, Owned, Elsewheres, Telling, Working, None
<1>9. k \in Key /\ work'[k] # None /\ token'[k] = e /\ candidate'[k] = candidate[k]
  BY <1>1, <1>4 DEF Work, None
<1>. QED
  BY <1>1, <1>2, <1>5, <1>6, <1>7, <1>8, <1>9, OwnerStep

\* The stage a work is taken to is one that its candidate allows.
LEMMA StageStep ==
  ASSUME IInv, NEW e \in Exec, NEW to, Owns(e), reqPc[e] \in Elsewheres,
         Moves(e, to),
         \/ UNCHANGED stage
         \/ /\ to = "allocating" /\ ~candidate[plan[e].key]
            /\ stage[plan[e].key] # "OLD_INVOICE_HANDLING"
            /\ stage' = [stage EXCEPT ![plan[e].key] = "ALLOCATION"]
         \/ /\ to = "writing" /\ candidate[plan[e].key]
            /\ stage' = [stage EXCEPT ![plan[e].key] = "CHANNEL_UPDATE"],
         \/ to = "allocating" /\ stage'[plan[e].key] = "ALLOCATION"
         \/ to \in {"submitting", "writing"} /\ candidate[plan[e].key],
         UNCHANGED <<batches, shipments, current, group, carrier, work, old,
                     token, stale, candidate, updated, writes, registration,
                     confirmed>>
  PROVE  IInv'
<1>1. PICK k \in Work :
        /\ k = plan[e].key
        /\ token[k] = e /\ Open(k) /\ ~updated[k] /\ work[k] # None
        /\ Staged(k) /\ Requested(e) /\ Owned(e, k)
  BY OwnerKnows
<1>2. Aside(e, to, k)
  BY <1>1, Moved DEF Elsewheres
<1>. USE DEF works, writes, registration, shipments, batches
<1>3. /\ \A j \in Work \ {k} : stage'[j] = stage[j]
      /\ \/ stage'[k] = stage[k]
         \/ stage'[k] = "ALLOCATION" /\ ~candidate[k]
              /\ stage[k] # "OLD_INVOICE_HANDLING"
         \/ stage'[k] = "CHANNEL_UPDATE" /\ candidate[k]
  BY <1>1 DEF IInv, WorkTypes
<1>4. WorkTypes'
  BY <1>1 DEF IInv, WorkTypes
<1>5. Staged(k)'
  BY <1>1, <1>3 DEF Staged, Open, Early, None
<1>6. OnlyAt(k) /\ Keeps
  BY <1>1, <1>3 DEF OnlyAt, Keeps, Open, Staged, Early
<1>7. Requested(e)' /\ \A j \in Work : Owned(e, j)'
  BY <1>1, <1>2
     DEF Aside, Requested, Owned, Elsewheres, Telling, Working
<1>8. k \in Key
  BY <1>1 DEF Work
<1>. QED
  BY <1>1, <1>2, <1>4, <1>5, <1>6, <1>7, <1>8, OwnerStep

LEMMA ContinueStep ==
  ASSUME IInv, NEW e \in Exec, Continue(e)
  PROVE  IInv'
<1>1. \E k \in Work :
        /\ k = plan[e].key /\ Owns(e) /\ Staged(k)
        /\ stage[k] \in {"ALLOCATION", "CHANNEL_UPDATE"}
  BY OwnerKnows DEF Continue, Elsewheres, Owned
<1>2. reqPc[e] \in Elsewheres
  BY DEF Continue, Elsewheres
<1>3. stage' = [stage EXCEPT ![plan[e].key] = "ALLOCATION"]
        => stage'[plan[e].key] = "ALLOCATION"
  BY <1>1 DEF IInv, WorkTypes
<1>. QED
  BY <1>1, <1>2, <1>3, StageStep DEF Continue

LEMMA SubmitStep ==
  ASSUME IInv, NEW e \in Exec, Submit(e)
  PROVE  IInv'
<1>1. candidate[plan[e].key] /\ reqPc[e] \in Elsewheres
  BY OwnerKnows DEF Submit, Elsewheres, Requested, Telling
<1>. QED
  BY <1>1, StageStep DEF Submit

LEMMA AllocatedStep ==
  ASSUME IInv, NEW e \in Exec, Allocated(e)
  PROVE  IInv'
<1>1. PICK k \in Work :
        /\ k = plan[e].key
        /\ token[k] = e /\ Open(k) /\ ~updated[k] /\ work[k] # None
        /\ Staged(k) /\ Requested(e) /\ Owned(e, k)
        /\ reqPc[e] = "issued"
  BY OwnerKnows DEF Allocated
<1>2. Aside(e, "submitting", k)
  BY <1>1, Moved DEF Allocated
<1>3. stage[k] = "ALLOCATION"
  BY <1>1 DEF Owned
<1>4. /\ candidate'[k] = TRUE /\ stage'[k] = "CHANNEL_UPDATE"
      /\ batch[k] = "ALLOCATED"
      /\ \A j \in Work \ {k} :
           candidate'[j] = candidate[j] /\ stage'[j] = stage[j]
  <2>1. /\ candidate' = [candidate EXCEPT ![k] = TRUE]
        /\ stage' = [stage EXCEPT ![k] = "CHANNEL_UPDATE"]
        /\ batch[k] = "ALLOCATED"
    BY <1>1, Zenon DEF Allocated, Candidate
  <2>2. /\ candidate = [j \in Work |-> candidate[j]]
        /\ stage = [j \in Work |-> stage[j]]
    BY DEF IInv, WorkTypes
  <2>. QED
    BY <1>1, <2>1, <2>2
<1>. USE DEF Allocated, works, writes, registration, shipments, batches
<1>5. WorkTypes'
  BY <1>1 DEF IInv, WorkTypes
<1>6. OnlyAt(k) /\ Keeps
  BY <1>1, <1>3, <1>4 DEF OnlyAt, Keeps, Open
<1>7. Staged(k)'
  BY <1>1, <1>3, <1>4 DEF Staged, Open, Early, None
<1>8. Requested(e)' /\ \A j \in Work : Owned(e, j)'
  BY <1>1, <1>2, <1>4
     DEF Aside, Requested, Owned, Elsewheres, Telling, Working
<1>9. k \in Key /\ work'[k] # None /\ token'[k] = e
  BY <1>1 DEF Work
<1>. QED
  BY <1>1, <1>2, <1>4, <1>5, <1>6, <1>7, <1>8, <1>9, OwnerStep

\* The owner gives a work up, which a person may have to look at.
LEMMA GivesUpStep ==
  ASSUME IInv, NEW e \in Exec, Owns(e),
         reqPc[e] \in Elsewheres
           \/ (reqPc[e] = "issued" /\ plan[e].key \in Work),
         Aside(e, "idle", Initial),
         Releases(plan[e].key),
         \/ UNCHANGED work
         \/ work' = [work EXCEPT ![plan[e].key] = "REVIEW_REQUIRED"],
         UNCHANGED <<batches, shipments, current, group, carrier, stage, old,
                     candidate, updated, writes, registration, confirmed>>
  PROVE  IInv'
<1>1. PICK k \in Work :
        /\ k = plan[e].key
        /\ token[k] = e /\ Open(k) /\ ~updated[k] /\ work[k] # None
        /\ Staged(k) /\ Requested(e) /\ Owned(e, k)
  BY OwnerKnows
<1>2. /\ token'[k] = None /\ stale'[k] = FALSE
      /\ work'[k] \in {work[k], "REVIEW_REQUIRED"}
      /\ \A j \in Work \ {k} : /\ token'[j] = token[j]
                               /\ stale'[j] = stale[j]
                               /\ work'[j] = work[j]
  <2>1. /\ work = [j \in Work |-> work[j]]
        /\ token = [j \in Work |-> token[j]]
        /\ stale = [j \in Work |-> stale[j]]
    BY DEF IInv, WorkTypes
  <2>2. \/ UNCHANGED work
        \/ work' = [work EXCEPT ![k] = "REVIEW_REQUIRED"]
    BY <1>1
  <2>3. Releases(k)
    BY <1>1
  <2>4. /\ work'[k] \in {work[k], "REVIEW_REQUIRED"}
        /\ \A j \in Work \ {k} : work'[j] = work[j]
    BY <2>1, <2>2
  <2>. QED
    BY <2>1, <2>3, <2>4 DEF Releases
<1>. USE DEF works, writes, registration, shipments, batches
<1>3. WorkTypes'
  BY <1>1 DEF IInv, WorkTypes, Releases
<1>4. OnlyAt(k) /\ Keeps
  BY <1>1, <1>2 DEF OnlyAt, Keeps, Open, None
<1>5. Staged(k)'
  BY <1>1, <1>2 DEF Staged, Open, None
<1>6. Requested(e)' /\ \A j \in Work : Owned(e, j)'
  BY DEF Aside, Requested, Owned, Elsewheres
<1>7. work'[k] # None /\ candidate'[k] = candidate[k]
  BY <1>1, <1>2 DEF None
<1>. QED
  BY <1>1, <1>2, <1>3, <1>4, <1>5, <1>6, <1>7, OwnerStep

LEMMA ConfirmFailsStep ==
  ASSUME IInv, NEW e \in Exec, ConfirmFails(e)
  PROVE  IInv'
<1>1. Aside(e, "idle", Initial)
  BY Turned DEF ConfirmFails, Breaks
<1>2. reqPc[e] \in Elsewheres
  BY DEF ConfirmFails, Elsewheres
<1>. QED
  BY <1>1, <1>2, GivesUpStep DEF ConfirmFails

LEMMA ReviewStep ==
  ASSUME IInv, NEW e \in Exec, Review(e)
  PROVE  IInv'
<1>1. Aside(e, "idle", Initial)
  BY Turned DEF Review, Stops, GoesOn
<1>2. reqPc[e] \in Elsewheres
        \/ (reqPc[e] = "issued" /\ plan[e].key \in Work)
  BY DEF Review, Elsewheres
<1>3. CASE Owns(e)
  BY <1>1, <1>2, <1>3, GivesUpStep DEF Review
<1>4. CASE ~Owns(e)
  <2>1. Requested(e)' /\ \A j \in Work : Owned(e, j)'
    BY <1>1 DEF Aside, Requested, Owned, Elsewheres
  <2>. QED
    BY <1>1, <1>4, <2>1, StandStep DEF Review, works
<1>. QED
  BY <1>3, <1>4

\* Before its candidate a work is canceled, and its group released.
LEMMA CancelStep ==
  ASSUME IInv, NEW e \in Exec, Cancel(e)
  PROVE  IInv'
<1>1. PICK k \in Work :
        /\ k = plan[e].key
        /\ token[k] = e /\ Open(k) /\ ~updated[k] /\ work[k] # None
        /\ Staged(k) /\ Requested(e) /\ Owned(e, k)
        /\ reqPc[e] = "canceling"
  BY OwnerKnows DEF Cancel, Elsewheres
<1>2. Aside(e, "idle", Initial)
  BY Turned DEF Cancel, Stops, GoesOn
<1>3. /\ token'[k] = None /\ stale'[k] = FALSE
      /\ work'[k] = "CANCELED"
      /\ \A j \in Work \ {k} : /\ token'[j] = token[j]
                               /\ stale'[j] = stale[j]
                               /\ work'[j] = work[j]
  <2>1. /\ token' = [token EXCEPT ![k] = None]
        /\ stale' = [stale EXCEPT ![k] = FALSE]
        /\ work' = [work EXCEPT ![k] = "CANCELED"]
    BY <1>1, Zenon DEF Cancel, Releases
  <2>2. /\ token = [j \in Work |-> token[j]]
        /\ stale = [j \in Work |-> stale[j]]
        /\ work = [j \in Work |-> work[j]]
    BY DEF IInv, WorkTypes
  <2>. QED
    BY <1>1, <2>1, <2>2
<1>. USE DEF Cancel, works, writes, registration, shipments, batches
<1>4. WorkTypes'
  BY <1>1 DEF IInv, WorkTypes, Releases
<1>5. OnlyAt(k)
  BY <1>1, <1>3 DEF OnlyAt
<1>6. Staged(k)' /\ work'[k] # None
  BY <1>1, <1>3 DEF Staged, Open, None, Owned, Early
<1>7. Requested(e)' /\ \A j \in Work : Owned(e, j)'
  BY <1>2 DEF Aside, Requested, Owned, Elsewheres
<1>8. \A f \in Exec \ {e} : Steady(f, k)
  <2>1. \A f \in Exec : f # None
    OBVIOUS
  <2>. QED
    BY <1>2, <1>3, <2>1 DEF Aside, Steady
<1>9. /\ \A j \in Work : ~Open(j)'
      /\ \A j \in Work \ {k} : work'[j] = work[j]
  BY <1>1, <1>3 DEF IInv, HoldInv, Open
<1>10. HoldInv'
  BY <1>9 DEF IInv, HoldInv
<1>11. InvoiceInv' /\ OldIsHandled'
  BY <1>9 DEF IInv, InvoiceInv, OldIsHandled
<1>12. NumbersAccountedFor'
  BY <1>1, <1>3 DEF IInv, NumbersAccountedFor, Existing, Open
<1>13. IssueInv' /\ ExpectInv' /\ HighestInv'
  BY <1>2, AsideApart
<1>. QED
  BY <1>4, <1>5, <1>6, <1>7, <1>8, <1>10, <1>11, <1>12, <1>13, AtWork DEF IInv

-----------------------------------------------------------------------------
(* The write to the channel.                                                 *)

\* A write changes, and nothing else does.
LEMMA WriteOnlyStep ==
  ASSUME IInv, NEW e \in Exec, NEW k \in Work, NEW to,
         k = plan[e].key, reqPc[e] \in Telling, to \in Telling,
         Aside(e, to, k),
         UNCHANGED <<batches, shipments, current, group, carrier, works,
                     registration, confirmed>>,
         \A j \in Work \ {k} : /\ write'[j] = write[j]
                               /\ caller'[j] = caller[j]
                               /\ j \in told' => j \in told,
         told' \in SUBSET Work,
         write[k] # "COMPLETED",
         \A f \in Exec \ {e} : reqPc[f] = "sending" /\ plan[f].key = k =>
           write'[k] = write[k] /\ caller'[k] = caller[k],
         write' \in [Work -> {None, "SENDING", "RETRYABLE", "REVIEW",
                              "COMPLETED"}],
         caller' \in [Work -> Exec \cup {None}],
         write'[k] # "COMPLETED",
         caller'[k] # None <=> write'[k] = "SENDING",
         to = "sending" => write'[k] = "SENDING" /\ caller'[k] = e
  PROVE  IInv'
<1>1. Requested(e) /\ Staged(k)
  BY DEF IInv, RequestInv, StageInv
<1>2. work[k] # None /\ candidate[k]
  BY <1>1 DEF Requested, Telling
<1>. USE DEF works, registration, shipments, batches
<1>3. WorkTypes'
  BY DEF IInv, WorkTypes
<1>4. OnlyAt(k)
  BY DEF OnlyAt
<1>5. Keeps
  BY DEF Keeps, Open
<1>6. Staged(k)'
  BY <1>1, <1>2 DEF Staged, Open
<1>7. Requested(e)' /\ \A j \in Work : Owned(e, j)'
  BY <1>2 DEF Aside, Requested, Owned, Elsewheres, Telling, Working
<1>8. \A f \in Exec \ {e} : Steady(f, k)
  BY DEF Aside, Steady
<1>9. IssueInv' /\ ExpectInv' /\ HighestInv'
  <2>1. k \in Key /\ to \notin {"prepared", "calling", "answered"}
    BY DEF Work, Telling
  <2>. QED
    BY <2>1, AsideApart
<1>. QED
  BY <1>2, <1>3, <1>4, <1>5, <1>6, <1>7, <1>8, <1>9, AtWork, KeepsStep
     DEF IInv

LEMMA WriteStep ==
  ASSUME IInv, NEW e \in Exec, Write(e)
  PROVE  IInv'
<1>1. Requested(e) /\ reqPc[e] = "writing"
  BY DEF IInv, RequestInv, Write
<1>2. PICK k \in Work : k = plan[e].key
  BY <1>1 DEF Requested, Elsewheres
<1>3. reqPc[e] \in Telling
  BY <1>1 DEF Telling
<1>4. caller[k] # None <=> write[k] = "SENDING"
  BY DEF IInv, StageInv, Staged
<1>5. WorkTypes
  BY DEF IInv
<1>6. CASE write[k] \in {None, "RETRYABLE"}
  <2>1. /\ write' = [write EXCEPT ![k] = "SENDING"]
        /\ caller' = [caller EXCEPT ![k] = e]
        /\ Moves(e, "sending")
        /\ UNCHANGED told
    BY <1>2, <1>6 DEF Write
  <2>2. Aside(e, "sending", k)
    BY <1>1, <1>2, <2>1, Moved
  <2>3. /\ write'[k] = "SENDING" /\ caller'[k] = e
        /\ \A j \in Work \ {k} :
             write'[j] = write[j] /\ caller'[j] = caller[j]
        /\ write' \in [Work -> {None, "SENDING", "RETRYABLE", "REVIEW",
                                "COMPLETED"}]
        /\ caller' \in [Work -> Exec \cup {None}]
        /\ told' \in SUBSET Work
    BY <1>5, <2>1 DEF WorkTypes
  <2>4. \A f \in Exec : ~(reqPc[f] = "sending" /\ plan[f].key = k)
    BY <1>6 DEF IInv, RequestInv, Requested, None
  <2>5. write[k] # "COMPLETED" /\ "sending" \in Telling /\ e # None
    BY <1>6 DEF None, Telling
  <2>. QED
    BY <1>2, <1>3, <2>1, <2>2, <2>3, <2>4, <2>5, WriteOnlyStep DEF Write
<1>7. CASE write[k] \notin {None, "RETRYABLE"}
  <2>1. Moves(e, "settling") /\ UNCHANGED writes
    BY <1>2, <1>7 DEF Write, writes
  <2>2. Aside(e, "settling", k)
    BY <1>1, <1>2, <2>1, Moved
  <2>3. Requested(e)' /\ \A j \in Work : Owned(e, j)'
    BY <1>1, <1>2, <2>1, <2>2
       DEF Aside, Requested, Owned, Elsewheres, Telling, Working, Write, works,
       writes
  <2>. QED
    BY <1>2, <2>1, <2>2, <2>3, StandStep DEF Write, Work
<1>. QED
  BY <1>6, <1>7

\* Whose write it is, is not done with it yet.
LEMMA CalledStep ==
  ASSUME IInv, NEW e \in Exec, Called(e)
  PROVE  IInv'
<1>1. Requested(e) /\ reqPc[e] = "sending"
  BY DEF IInv, RequestInv, Called
<1>2. PICK k \in Work : k = plan[e].key
  BY <1>1 DEF Requested, Elsewheres
<1>3. /\ reqPc[e] \in Telling
      /\ write[k] = "SENDING" /\ caller[k] = e
  BY <1>1, <1>2 DEF Telling, Requested
<1>4. \A f \in Exec \ {e} : ~(reqPc[f] = "sending" /\ plan[f].key = k)
  BY <1>3 DEF IInv, RequestInv, Requested
<1>5. WorkTypes
  BY DEF IInv
<1>6. told' \in SUBSET Work /\ \A j \in Work \ {k} : j \in told' => j \in told
  BY <1>2, <1>5 DEF Called, WorkTypes
<1>7. \/ Moves(e, "finalizing") /\ UNCHANGED <<write, caller>>
      \/ /\ Moves(e, "settling")
         /\ \E w \in {"RETRYABLE", "REVIEW"} :
              write' = [write EXCEPT ![k] = w]
         /\ caller' = [caller EXCEPT ![k] = None]
  BY <1>2 DEF Called
<1>8. PICK to \in {"finalizing", "settling"} : Moves(e, to)
  BY <1>7
<1>9. Aside(e, to, k) /\ to \in Telling /\ to # "sending"
  BY <1>1, <1>2, <1>8, Moved DEF Telling
<1>10. /\ \A j \in Work \ {k} : write'[j] = write[j] /\ caller'[j] = caller[j]
       /\ write' \in [Work -> {None, "SENDING", "RETRYABLE", "REVIEW",
                               "COMPLETED"}]
       /\ caller' \in [Work -> Exec \cup {None}]
       /\ write'[k] # "COMPLETED"
       /\ caller'[k] # None <=> write'[k] = "SENDING"
  <2>1. CASE UNCHANGED <<write, caller>>
    BY <1>3, <1>5, <2>1 DEF WorkTypes
  <2>2. CASE /\ \E w \in {"RETRYABLE", "REVIEW"} :
                  write' = [write EXCEPT ![k] = w]
             /\ caller' = [caller EXCEPT ![k] = None]
    BY <1>5, <2>2 DEF WorkTypes
  <2>. QED
    BY <1>7, <2>1, <2>2
<1>. QED
  BY <1>2, <1>3, <1>4, <1>6, <1>9, <1>10, WriteOnlyStep DEF Called

\* A write is given up by its caller.
LEMMA GivesUpWriteStep ==
  ASSUME IInv, NEW e \in Exec, NEW k \in Work, k = plan[e].key,
         reqPc[e] = "finalizing", caller[k] = e,
         Aside(e, "settling", k),
         write' = [write EXCEPT ![k] = "REVIEW"],
         caller' = [caller EXCEPT ![k] = None],
         UNCHANGED <<batches, shipments, current, group, carrier, works, told,
                     registration, confirmed>>
  PROVE  IInv'
<1>1. caller[k] # None /\ write[k] = "SENDING"
  BY DEF IInv, StageInv, Staged
<1>2. \A f \in Exec \ {e} : ~(reqPc[f] = "sending" /\ plan[f].key = k)
  BY DEF IInv, RequestInv, Requested
<1>3. /\ \A j \in Work \ {k} : write'[j] = write[j] /\ caller'[j] = caller[j]
      /\ write'[k] = "REVIEW" /\ caller'[k] = None
      /\ write' \in [Work -> {None, "SENDING", "RETRYABLE", "REVIEW",
                              "COMPLETED"}]
      /\ caller' \in [Work -> Exec \cup {None}]
      /\ told' \in SUBSET Work
  BY DEF IInv, WorkTypes
<1>4. reqPc[e] \in Telling /\ "settling" \in Telling
  BY DEF Telling
<1>. QED
  BY <1>1, <1>2, <1>3, <1>4, WriteOnlyStep

LEMMA FinalizeFailsStep ==
  ASSUME IInv, NEW e \in Exec, FinalizeFails(e)
  PROVE  IInv'
<1>1. Requested(e) /\ reqPc[e] = "finalizing"
  BY DEF IInv, RequestInv, FinalizeFails
<1>2. PICK k \in Work : k = plan[e].key
  BY <1>1 DEF Requested, Elsewheres
<1>3. Aside(e, "settling", k)
  BY <1>1, <1>2 DEF FinalizeFails, Aside, Requested, IInv, IssueInv, Types,
     RequestTypes
<1>4. CASE caller[k] = e
  BY <1>1, <1>2, <1>3, <1>4, GivesUpWriteStep DEF FinalizeFails
<1>5. CASE caller[k] # e
  <2>1. UNCHANGED writes
    BY <1>2, <1>5 DEF FinalizeFails, writes
  <2>2. Requested(e)' /\ \A j \in Work : Owned(e, j)'
    BY <1>1, <1>2, <1>3, <2>1
       DEF Aside, Requested, Owned, Elsewheres, Telling, Working,
       FinalizeFails, works, writes
  <2>. QED
    BY <1>2, <1>3, <2>1, <2>2, StandStep DEF FinalizeFails, Work
<1>. QED
  BY <1>4, <1>5

\* The candidate becomes the current invoice of the group that waits for it.
SwitchesTo(k) ==
  /\ invoice[k] = "ALLOCATED" /\ batch[k] = "ALLOCATED"
  /\ group = "ON_HOLD" /\ current # None /\ current' = k
  /\ revision[k] > revision[current]
  /\ invoice' = [invoice EXCEPT ![current] = "REPLACED"]
  /\ UNCHANGED <<batches, revision, group, carrier>>

LEMMA SwitchStep ==
  ASSUME IInv, NEW k \in Work, Switchable(k), Switches(k), candidate[k],
         write[k] # "COMPLETED",
         \A f \in Exec : ~(reqPc[f] = "sending" /\ plan[f].key = k),
         \A f \in Exec :
           \/ /\ reqPc'[f] = reqPc[f]
              /\ plan'[f] = plan[f]
              /\ answer'[f] = answer[f]
           \/ /\ reqPc'[f] = "idle"
              /\ answer'[f] = None,
         RequestTypes',
         UNCHANGED <<batches, revision, group, carrier, old, candidate, told,
                     printed, confirmed>>
  PROVE  IInv' /\ SwitchesTo(k)
<1>. USE DEF batches
<1>1. /\ Open(k) /\ ~updated[k] /\ current = old[k] /\ group = "ON_HOLD"
      /\ Staged(k)
  BY DEF Switchable, Open, IInv, StageInv, Staged, None
<1>2. /\ current \in Existing /\ current # k /\ current \in Key
      /\ current \in Work => updated[current]
  BY <1>1 DEF IInv, IssueInv, CurrentInv, HoldInv, InvoiceInv, Existing
<1>3. /\ batch[k] = "ALLOCATED" /\ invoice[k] = "ALLOCATED" /\ k \in Existing
      /\ revision[k] > revision[current]
  <2>1. k \in Key /\ batch[k] = "ALLOCATED"
    BY <1>1 DEF Staged, Work
  <2>2. invoice[k] # None
    BY <2>1 DEF IInv, IssueInv, StoredAsGiven
  <2>3. k \in Existing
    BY <2>1, <2>2 DEF Existing
  <2>. QED
    BY <1>1, <2>1, <2>2, <2>3 DEF IInv, InvoiceInv
<1>4. WorkTypes
  BY DEF IInv
<1>5. /\ write'[k] = "COMPLETED" /\ caller'[k] = None
      /\ work'[k] = "PROCESSING" /\ stage'[k] = "CARRIER_REGISTRATION"
      /\ updated'[k] = TRUE /\ token'[k] = None /\ stale'[k] = FALSE
  BY <1>4 DEF Switches, Releases, WorkTypes
<1>6. \A j \in Work \ {k} :
        /\ write'[j] = write[j] /\ caller'[j] = caller[j]
        /\ work'[j] = work[j] /\ stage'[j] = stage[j]
        /\ updated'[j] = updated[j]
        /\ token'[j] = token[j] /\ stale'[j] = stale[j]
  BY <1>4 DEF Switches, Releases, WorkTypes
<1>7. /\ invoice' = [invoice EXCEPT ![current] = "REPLACED"]
      /\ invoice' \in [Key -> {None, "ALLOCATED", "REGISTERED", "REPLACED"}]
      /\ invoice'[current] = "REPLACED"
      /\ \A j \in Key \ {current} : invoice'[j] = invoice[j]
      /\ Existing' = Existing /\ current' = k
  BY <1>1, <1>2 DEF Switches, Replaces, IInv, IssueInv, Types, BatchTypes,
     Existing, None
<1>8. WorkTypes'
  BY <1>4 DEF Switches, Releases, WorkTypes, Work
<1>9. IssueInv' /\ ExpectInv' /\ HighestInv'
  <2>1. CurrentInv'
    BY <1>3, <1>7 DEF CurrentInv
  <2>2. Apart
    BY <1>7, <2>1 DEF Apart, Working, carrier
  <2>. QED
    BY <2>2, ApartStep
<1>10. OnlyAt(k)
  BY <1>6, <1>7, <1>2 DEF OnlyAt, Work, Existing
<1>11. Staged(k)'
  BY <1>1, <1>3, <1>5 DEF Staged, Open, Early, None
<1>12. RequestInv' /\ StageInv' /\ OwnerInv'
  <2>1. \A f \in Exec : \/ Steady(f, k)
                        \/ Requested(f)' /\ \A j \in Work : Owned(f, j)'
    BY <1>5 DEF Steady, Requested, Owned, Elsewheres
  <2>. QED
    BY <1>5, <1>10, <1>11, <2>1, AtWork DEF None
<1>13. \A j \in Work : (Open(j)' <=> Open(j)) /\ (Open(j) => j = k)
  BY <1>1, <1>5, <1>6 DEF Open, IInv, HoldInv, None
<1>14. HoldInv'
  BY <1>1, <1>5, <1>7, <1>13 DEF IInv, HoldInv, Work
<1>15. InvoiceInv'
  BY <1>2, <1>3, <1>5, <1>6, <1>7, <1>13 DEF IInv, InvoiceInv, Work
<1>16. OldIsHandled'
  BY <1>5, <1>13 DEF OldIsHandled
<1>17. NumbersAccountedFor'
  BY <1>5, <1>6, <1>7, <1>13, <1>2 DEF IInv, NumbersAccountedFor, Existing
<1>. QED
  BY <1>1, <1>2, <1>3, <1>7, <1>8, <1>9, <1>12, <1>14, <1>15, <1>16, <1>17
     DEF IInv, SwitchesTo

LEMMA FinalizeStep ==
  ASSUME IInv, NEW e \in Exec, Finalize(e)
  PROVE  /\ IInv'
         /\ \/ /\ Stops(e)
               /\ \E k \in Work : SwitchesTo(k)
            \/ /\ Moves(e, "settling")
               /\ UNCHANGED <<invoice, current>>
<1>1. Requested(e) /\ reqPc[e] = "finalizing"
  BY DEF IInv, RequestInv, Finalize
<1>2. PICK k \in Work : k = plan[e].key
  BY <1>1 DEF Requested, Elsewheres
<1>3. caller[k] = e /\ candidate[k]
  BY <1>1, <1>2 DEF Finalize, Requested, Telling
<1>4. CASE Owns(e) /\ Switchable(k)
  <2>1. Switches(k) /\ Aside(e, "idle", Initial)
    BY <1>2, <1>4, Turned DEF Finalize, Stops, GoesOn
  <2>2. /\ write[k] = "SENDING"
        /\ \A f \in Exec : ~(reqPc[f] = "sending" /\ plan[f].key = k)
    BY <1>1, <1>3 DEF IInv, StageInv, Staged, RequestInv, Requested
  <2>. QED
    BY <1>2, <1>3, <1>4, <2>1, <2>2, SwitchStep DEF Aside, Finalize
<1>5. CASE ~(Owns(e) /\ Switchable(k))
  <2>1. Aside(e, "settling", k)
    BY <1>1, <1>2, <1>5, Moved DEF Finalize
  <2>. QED
    BY <1>1, <1>2, <1>3, <1>5, <2>1, GivesUpWriteStep
       DEF Finalize, works, shipments, registration
<1>. QED
  BY <1>4, <1>5

-----------------------------------------------------------------------------
(* What happens in the background.                                           *)

LEMMA QuietStep ==
  ASSUME IInv, UNCHANGED issueVars
  PROVE  IssueInv' /\ ExpectInv' /\ HighestInv'
<1>1. Apart
  BY DEF Apart, issueVars, batches, shipments, requests, carrier, Existing,
     CurrentInv, IInv, IssueInv, Types, BatchTypes, RequestTypes
<1>. QED
  BY <1>1, ApartStep

\* One work changes, and no request.
LEMMA AloneStep ==
  ASSUME IInv, NEW k \in Work, UNCHANGED issueVars, OnlyAt(k), Keeps,
         WorkTypes', Staged(k)', work'[k] # None,
         candidate[k] => candidate'[k],
         \A f \in Exec : reqPc[f] = "sending" /\ plan[f].key = k =>
           write'[k] = write[k] /\ caller'[k] = caller[k],
         token[k] # None =>
           token'[k] = token[k] /\ work'[k] = work[k] /\ stage'[k] = stage[k],
         token[k] = None => token'[k] = None
  PROVE  IInv'
<1>1. IssueInv' /\ ExpectInv' /\ HighestInv'
  BY QuietStep
<1>2. \A f \in Exec : f # None
  OBVIOUS
<1>3. \A f \in Exec : Steady(f, k)
  BY <1>2 DEF Steady, issueVars, requests
<1>. QED
  BY <1>1, <1>3, AtWork, KeepsStep DEF IInv

LEMMA TokenAgesStep ==
  ASSUME IInv, NEW k \in Work, TokenAges(k)
  PROVE  IInv'
<1>1. Staged(k) /\ WorkTypes
  BY DEF IInv, StageInv
<1>2. /\ stale'[k] = TRUE
      /\ \A j \in Work \ {k} : stale'[j] = stale[j]
  BY <1>1 DEF TokenAges, WorkTypes
<1>. USE DEF TokenAges, writes, registration, issueVars, batches, shipments
<1>3. WorkTypes'
  BY <1>1 DEF WorkTypes
<1>4. OnlyAt(k) /\ Keeps
  BY <1>2 DEF OnlyAt, Keeps, Open
<1>5. Staged(k)' /\ work'[k] # None
  BY <1>1, <1>2 DEF Staged, Open
<1>. QED
  BY <1>3, <1>4, <1>5, AloneStep

LEMMA RecoverWriteStep ==
  ASSUME IInv, NEW k \in Work, RecoverWrite(k)
  PROVE  IInv'
<1>1. Staged(k) /\ WorkTypes
  BY DEF IInv, StageInv
<1>2. /\ write'[k] = "REVIEW" /\ caller'[k] = None
      /\ \A j \in Work \ {k} : write'[j] = write[j] /\ caller'[j] = caller[j]
  BY <1>1 DEF RecoverWrite, WorkTypes
<1>. USE DEF RecoverWrite, works, registration, issueVars, batches, shipments
<1>3. WorkTypes'
  BY <1>1 DEF WorkTypes
<1>4. OnlyAt(k) /\ Keeps
  BY <1>2 DEF OnlyAt, Keeps, Open
<1>5. Staged(k)' /\ work'[k] # None
  BY <1>1, <1>2 DEF Staged, Open, None
<1>6. \A f \in Exec : ~(reqPc[f] = "sending" /\ plan[f].key = k)
  BY DEF IInv, RequestInv, Requested
<1>. QED
  BY <1>3, <1>4, <1>5, <1>6, AloneStep

LEMMA ReviewWriteStep ==
  ASSUME IInv, NEW k \in Work, ReviewWrite(k)
  PROVE  IInv' /\ (SwitchesTo(k) \/ UNCHANGED <<invoice, current>>)
<1>1. Staged(k) /\ WorkTypes /\ write[k] = "REVIEW"
  BY DEF IInv, StageInv, ReviewWrite
<1>2. \A f \in Exec : ~(reqPc[f] = "sending" /\ plan[f].key = k)
  BY <1>1 DEF IInv, RequestInv, Requested
<1>3. candidate[k]
  BY <1>1 DEF Staged, None
<1>4. CASE k \in told
  <2>1. Switchable(k) /\ Switches(k)
    BY <1>4 DEF ReviewWrite
  <2>2. RequestTypes' /\ UNCHANGED <<reqPc, plan, answer>>
    BY DEF ReviewWrite, requests, RequestTypes, IInv, IssueInv, Types
  <2>. QED
    BY <1>1, <1>2, <1>3, <2>1, <2>2, SwitchStep DEF ReviewWrite
<1>5. CASE k \notin told
  <2>. USE <1>5 DEF ReviewWrite, issueVars, batches, shipments
  <2>1. /\ write'[k] = "RETRYABLE"
        /\ \A j \in Work \ {k} : write'[j] = write[j]
    BY <1>1 DEF WorkTypes
  <2>2. WorkTypes'
    BY <1>1 DEF WorkTypes
  <2>3. OnlyAt(k) /\ Keeps
    BY <2>1 DEF OnlyAt, Keeps, Open
  <2>4. Staged(k)' /\ work'[k] # None
    BY <1>1, <1>3, <2>1 DEF Staged, Open, None
  <2>. QED
    BY <1>2, <2>2, <2>3, <2>4, AloneStep
<1>. QED
  BY <1>4, <1>5

\* What nobody's work depends on.
LEMMA RegisterStep ==
  ASSUME IInv, UNCHANGED <<issueVars, works, writes, confirmed>>,
         register' \in [Key -> {None, "PENDING", "SUBMITTING", "REGISTERED",
                                "BLOCKED"}]
  PROVE  IInv'
<1>. USE DEF works, writes, issueVars, batches, shipments, requests
<1>1. IssueInv' /\ ExpectInv' /\ HighestInv'
  BY QuietStep
<1>2. Keeps
  BY DEF Keeps, Open
<1>3. WorkTypes'
  BY DEF IInv, WorkTypes
<1>4. RequestInv' /\ StageInv' /\ OwnerInv'
  BY DEF IInv, RequestInv, Requested, StageInv, Staged, OwnerInv, Owned, Open,
     Working
<1>. QED
  BY <1>1, <1>2, <1>3, <1>4, KeepsStep DEF IInv

LEMMA RegistrationStep ==
  ASSUME IInv, NEW s \in Key,
         RegisterSubmit(s) \/ RegisterAgain(s) \/ PrintLabel(s)
  PROVE  IInv'
<1>1. register' \in [Key -> {None, "PENDING", "SUBMITTING", "REGISTERED",
                             "BLOCKED"}]
  BY DEF RegisterSubmit, RegisterAgain, PrintLabel, IInv, WorkTypes
<1>. QED
  BY <1>1, RegisterStep DEF RegisterSubmit, RegisterAgain, PrintLabel

\* The invoice that is registered is the group's current one, and not one
\* that an open work is to replace.
LEMMA RegisterAnsweredStep ==
  ASSUME IInv, NEW s \in Key, RegisterAnswered(s)
  PROVE  /\ IInv'
         /\ \/ UNCHANGED invoice
            \/ /\ current = s /\ current # None
               /\ invoice[current] \in {"ALLOCATED", "REGISTERED"}
               /\ invoice' = [invoice EXCEPT ![current] = "REGISTERED"]
<1>. USE DEF RegisterAnswered, works, writes, requests, batches, carrier
<1>1. register' \in [Key -> {None, "PENDING", "SUBMITTING", "REGISTERED",
                             "BLOCKED"}]
  BY DEF IInv, WorkTypes
<1>2. CASE UNCHANGED invoice
  BY <1>1, <1>2, RegisterStep DEF issueVars, shipments
<1>3. CASE Eligible(s) /\ invoice' = [invoice EXCEPT ![s] = "REGISTERED"]
  <2>1. /\ current = s /\ current # None
        /\ invoice[s] \in {"ALLOCATED", "REGISTERED"}
    BY <1>3 DEF Eligible, IInv, InvoiceInv
  <2>2. /\ invoice' \in [Key -> {None, "ALLOCATED", "REGISTERED", "REPLACED"}]
        /\ invoice'[s] = "REGISTERED"
        /\ \A j \in Key \ {s} : invoice'[j] = invoice[j]
        /\ Existing' = Existing
    BY <1>3, <2>1 DEF IInv, IssueInv, Types, BatchTypes, Existing, None
  <2>3. \A k \in Work : Open(k) => updated[k]
    <3>1. ASSUME NEW k \in Work, Open(k), ~updated[k] PROVE FALSE
      <4>1. group = "ON_HOLD" /\ old[k] = s
        BY <2>1, <3>1 DEF IInv, HoldInv
      <4>2. s \in Work /\ Open(s)
        BY <1>3, <4>1 DEF Eligible
      <4>3. updated[s]
        BY <2>1, <4>2 DEF IInv, InvoiceInv
      <4>4. s = k
        BY <3>1, <4>2 DEF IInv, HoldInv
      <4>. QED
        BY <3>1, <4>3, <4>4
    <3>. QED
      BY <3>1
  <2>4. Apart
    BY <2>2 DEF Apart, CurrentInv, IInv, IssueInv, Types, RequestTypes
  <2>5. IssueInv' /\ ExpectInv' /\ HighestInv'
    BY <2>4, ApartStep
  <2>6. WorkTypes'
    BY <1>1 DEF IInv, WorkTypes
  <2>7. RequestInv' /\ OwnerInv' /\ HoldInv'
    BY DEF IInv, RequestInv, Requested, OwnerInv, Owned, Working, HoldInv, Open
  <2>8. StageInv'
    <3>1. ASSUME NEW k \in Work PROVE Staged(k)'
      <4>1. Staged(k) /\ (invoice[k] = None => invoice'[k] = None)
        BY <2>1, <2>2 DEF IInv, StageInv, Work, None
      <4>. QED
        BY <4>1 DEF Staged, Open
    <3>. QED
      BY <3>1 DEF StageInv
  <2>9. InvoiceInv' /\ OldIsHandled'
    BY <2>1, <2>2, <2>3 DEF IInv, InvoiceInv, OldIsHandled, Open, Work
  <2>10. NumbersAccountedFor'
    BY <2>1, <2>2 DEF IInv, NumbersAccountedFor, Open, Existing
  <2>. QED
    BY <1>3, <2>1, <2>5, <2>6, <2>7, <2>8, <2>9, <2>10 DEF IInv
<1>. QED
  BY <1>2, <1>3

\* The group is released with the work that it was held for.
LEMMA ProjectStep ==
  ASSUME IInv, NEW k \in Work, Project(k)
  PROVE  IInv'
<1>1. /\ Staged(k) /\ WorkTypes /\ Open(k) /\ updated[k] /\ token[k] = None
      /\ group = "ON_HOLD" /\ current = k
  BY DEF IInv, StageInv, Project, HoldInv
<1>. USE DEF works, writes, registration, batches, shipments, carrier
<1>2. PICK status \in {"COMPLETED", "REVIEW_REQUIRED", "WAITING_LABEL"},
           st \in {"FINALIZE", "CARRIER_REGISTRATION", "LABEL_PRINT"} :
        /\ Projected(k, status, st)
        /\ IF status = "COMPLETED" THEN group' = "READY" ELSE UNCHANGED group
  <2>1. CASE register[k] = "REGISTERED" /\ k \in printed
    BY <1>1, <2>1 DEF Project
  <2>2. CASE register[k] = "BLOCKED"
    BY <1>1, <2>2 DEF Project
  <2>3. CASE register[k] = "REGISTERED" /\ k \notin printed
    BY <1>1, <2>3 DEF Project
  <2>. QED
    BY <2>1, <2>2, <2>3 DEF Project
<1>3. /\ work'[k] = status /\ stage'[k] = st
      /\ \A j \in Work \ {k} : work'[j] = work[j] /\ stage'[j] = stage[j]
  BY <1>1, <1>2 DEF Projected, WorkTypes
<1>4. WorkTypes'
  BY <1>1, <1>2 DEF WorkTypes, Projected, Project
<1>5. OnlyAt(k)
  BY <1>3 DEF OnlyAt, Project
<1>6. Staged(k)' /\ work'[k] # None
  BY <1>1, <1>3 DEF Staged, Open, Early, None, Project
<1>7. \A f \in Exec : Steady(f, k)
  <2>1. \A f \in Exec : f # None
    OBVIOUS
  <2>. QED
    BY <1>1, <2>1 DEF Steady, Project, requests
<1>8. IssueInv' /\ ExpectInv' /\ HighestInv'
  <2>1. Apart
    BY DEF Apart, Project, requests, Existing, CurrentInv, IInv, IssueInv,
       Types, BatchTypes, RequestTypes
  <2>. QED
    BY <2>1, ApartStep
<1>9. RequestInv' /\ StageInv' /\ OwnerInv'
  BY <1>5, <1>6, <1>7, AtWork DEF Project
<1>10. CASE status # "COMPLETED"
  <2>1. Keeps
    BY <1>1, <1>2, <1>3, <1>10 DEF Keeps, Open, None, Project, Staged, Early
  <2>. QED
    BY <2>1, <1>4, <1>8, <1>9, KeepsStep DEF IInv
<1>11. CASE status = "COMPLETED"
  <2>1. /\ \A j \in Work : ~Open(j)'
        /\ group' = "READY"
    BY <1>1, <1>2, <1>3, <1>11 DEF IInv, HoldInv, Open
  <2>2. HoldInv' /\ InvoiceInv' /\ OldIsHandled'
    BY <1>1, <2>1
       DEF IInv, HoldInv, InvoiceInv, OldIsHandled, Project, Work
  <2>3. NumbersAccountedFor'
    BY <1>1, <1>3 DEF IInv, NumbersAccountedFor, Existing, Open, Project
  <2>. QED
    BY <1>4, <1>8, <1>9, <2>2, <2>3 DEF IInv
<1>. QED
  BY <1>10, <1>11

LEMMA ReadyStep ==
  ASSUME IInv, Ready
  PROVE  IInv'
<1>. USE DEF Ready, works, writes, requests, batches, shipments, carrier
<1>1. \A k \in Work : ~Open(k) /\ ~Open(k)'
  BY DEF IInv, HoldInv, Open
<1>2. IssueInv' /\ ExpectInv' /\ HighestInv'
  <2>1. Apart
    BY DEF Apart, Existing, CurrentInv, IInv, IssueInv, Types, BatchTypes,
       RequestTypes
  <2>. QED
    BY <2>1, ApartStep
<1>3. WorkTypes'
  BY DEF IInv, WorkTypes, IssueInv, CurrentInv, Existing
<1>4. RequestInv' /\ StageInv' /\ OwnerInv'
  BY DEF IInv, RequestInv, Requested, StageInv, Staged, OwnerInv, Owned, Open,
     Working
<1>5. HoldInv' /\ InvoiceInv' /\ OldIsHandled'
  BY <1>1 DEF IInv, HoldInv, InvoiceInv, OldIsHandled
<1>6. NumbersAccountedFor'
  BY <1>1 DEF IInv, NumbersAccountedFor, Existing
<1>. QED
  BY <1>2, <1>3, <1>4, <1>5, <1>6 DEF IInv

\* A work is begun when no other is open.
LEMMA StartStep ==
  ASSUME IInv, NEW e \in Exec, NEW k \in Work, Start(e, k)
  PROVE  IInv'
<1>. USE DEF writes, registration, batches, shipments, carrier
<1>1. /\ Staged(k) /\ WorkTypes /\ work[k] = None
      /\ token[k] = None /\ ~candidate[k] /\ ~updated[k] /\ ~stale[k]
      /\ invoice[k] = None
  BY DEF IInv, StageInv, Staged, Start, Open
<1>2. /\ \A j \in Work : ~Open(j)
      /\ group = "READY" /\ current # None /\ current \in Key /\ k \in Key
  BY DEF IInv, HoldInv, Start, MayHold, IssueInv, CurrentInv, Existing, Work
<1>3. /\ group' = "ON_HOLD" /\ old'[k] = current /\ current' = current
      /\ \A j \in Work \ {k} : old'[j] = old[j]
  BY <1>1 DEF Start, WorkTypes
<1>4. \/ /\ work' = [work EXCEPT ![k] = "WAITING_MANUAL"]
         /\ stage' = [stage EXCEPT ![k] = "OLD_INVOICE_HANDLING"]
         /\ UNCHANGED <<token, stale, requests>>
      \/ /\ work' = [work EXCEPT ![k] = "PROCESSING"]
         /\ stage' = [stage EXCEPT ![k] = "ALLOCATION"]
         /\ token' = [token EXCEPT ![k] = e]
         /\ stale' = [stale EXCEPT ![k] = FALSE]
         /\ GoesOn(e, "continuing", k)
         /\ invoice[current] # "REGISTERED"
  BY DEF Start, Claims
<1>5. \A j \in Work \ {k} : /\ work'[j] = work[j]
                            /\ stage'[j] = stage[j]
                            /\ token'[j] = token[j]
                            /\ stale'[j] = stale[j]
  BY <1>1, <1>4 DEF WorkTypes
<1>6. /\ work'[k] \in {"WAITING_MANUAL", "PROCESSING"}
      /\ stage'[k] = IF work'[k] = "PROCESSING" THEN "ALLOCATION"
                                                ELSE "OLD_INVOICE_HANDLING"
      /\ token'[k] \in {e, None} /\ ~stale'[k]
      /\ work'[k] = "PROCESSING" => invoice[current] # "REGISTERED"
  <2>1. CASE UNCHANGED <<token, stale>>
          /\ work' = [work EXCEPT ![k] = "WAITING_MANUAL"]
          /\ stage' = [stage EXCEPT ![k] = "OLD_INVOICE_HANDLING"]
    BY <1>1, <2>1 DEF WorkTypes
  <2>2. CASE token' = [token EXCEPT ![k] = e]
          /\ stale' = [stale EXCEPT ![k] = FALSE]
          /\ work' = [work EXCEPT ![k] = "PROCESSING"]
          /\ stage' = [stage EXCEPT ![k] = "ALLOCATION"]
          /\ invoice[current] # "REGISTERED"
    BY <1>1, <2>2 DEF WorkTypes
  <2>. QED
    BY <1>4, <2>1, <2>2
<1>7. WorkTypes'
  <2>1. /\ group' \in {"FROZEN", "READY", "ON_HOLD"}
        /\ old' \in [Work -> Key \cup {None}]
    BY <1>1, <1>2, <1>3 DEF WorkTypes, Start
  <2>2. CASE UNCHANGED <<token, stale>>
          /\ work' = [work EXCEPT ![k] = "WAITING_MANUAL"]
          /\ stage' = [stage EXCEPT ![k] = "OLD_INVOICE_HANDLING"]
    BY <1>1, <2>1, <2>2 DEF WorkTypes, Start
  <2>3. CASE token' = [token EXCEPT ![k] = e]
          /\ stale' = [stale EXCEPT ![k] = FALSE]
          /\ work' = [work EXCEPT ![k] = "PROCESSING"]
          /\ stage' = [stage EXCEPT ![k] = "ALLOCATION"]
    BY <1>1, <2>1, <2>3 DEF WorkTypes, Start
  <2>. QED
    BY <1>4, <2>2, <2>3
<1>8. OnlyAt(k)
  BY <1>3, <1>5 DEF OnlyAt, Start
<1>9. Staged(k)' /\ work'[k] # None
  BY <1>1, <1>6 DEF Staged, Open, Early, None, Start
<1>10. /\ IssueInv' /\ ExpectInv' /\ HighestInv'
       /\ \A f \in Exec : \/ Steady(f, k)
                          \/ Requested(f)' /\ \A j \in Work : Owned(f, j)'
  <2>1. CASE UNCHANGED requests
    <3>1. Apart
      BY <2>1 DEF Apart, requests, Start, Existing, CurrentInv, IInv,
         IssueInv, Types, BatchTypes, RequestTypes
    <3>2. \A f \in Exec :
            ~(reqPc[f] # "idle" /\ plan[f].key = k)
      BY <1>1 DEF IInv, RequestInv, Requested
    <3>3. ASSUME NEW f \in Exec
          PROVE  Requested(f)' /\ \A j \in Work : Owned(f, j)'
      <4>1. Requested(f) /\ \A j \in Work : Owned(f, j)
        BY DEF IInv, RequestInv, OwnerInv
      <4>2. Requested(f)'
        BY <2>1, <3>2, <4>1, <1>5 DEF requests, Requested, Start
      <4>3. ASSUME NEW j \in Work PROVE Owned(f, j)'
        BY <2>1, <3>2, <4>1, <1>5 DEF requests, Owned, Working
      <4>. QED
        BY <4>2, <4>3
    <3>. QED
      BY <3>1, <3>3, ApartStep
  <2>2. CASE /\ GoesOn(e, "continuing", k)
             /\ work' = [work EXCEPT ![k] = "PROCESSING"]
             /\ token' = [token EXCEPT ![k] = e]
    <3>1. Aside(e, "continuing", k)
      BY <1>2, <2>2, Turned DEF GoesOn
    <3>2. work'[k] = "PROCESSING" /\ token'[k] = e
      BY <1>1, <2>2 DEF WorkTypes
    <3>3. \A f \in Exec \ {e} : Steady(f, k)
      BY <3>1, <3>2 DEF Aside, Steady, Start
    <3>4. Requested(e)' /\ \A j \in Work : Owned(e, j)'
      BY <1>6, <3>1, <3>2
         DEF Aside, Requested, Owned, Elsewheres, Telling, Working, None
    <3>. QED
      BY <1>2, <3>1, <3>3, <3>4, AsideApart DEF Start
  <2>. QED
    BY <1>4, <2>1, <2>2
<1>11. RequestInv' /\ StageInv' /\ OwnerInv'
  BY <1>8, <1>9, <1>10, AtWork DEF Start
<1>12. \A j \in Work : Open(j)' <=> j = k
  BY <1>2, <1>5, <1>6 DEF Open, None
<1>13. HoldInv'
  BY <1>1, <1>2, <1>3, <1>12 DEF HoldInv, Start
<1>14. InvoiceInv'
  BY <1>1, <1>12 DEF IInv, InvoiceInv, Start, Existing
<1>15. OldIsHandled'
  BY <1>2, <1>3, <1>6, <1>12 DEF OldIsHandled, Start
<1>16. NumbersAccountedFor'
  <2>1. \A j \in Work : Open(j) \/ work[j] = "CANCELED" =>
          Open(j)' \/ work'[j] = "CANCELED"
    BY <1>1, <1>2, <1>5, <1>12 DEF None
  <2>. QED
    BY <2>1 DEF IInv, NumbersAccountedFor, Existing, Start
<1>. QED
  BY <1>7, <1>10, <1>11, <1>13, <1>14, <1>15, <1>16 DEF IInv

-----------------------------------------------------------------------------
(* The issues within a replacement.                                          *)

\* What a request goes by when it has prepared an issue.
Expects(e) ==
  /\ plan[e].revision \in Nat
  /\ plan[e].key = Initial => plan[e].expected = None
  /\ plan[e].key # Initial =>
       plan[e].expected \in Existing
       /\ revision[plan[e].expected] < plan[e].revision

\* A request issues a number, and has stored nothing yet.
LEMMA IssuingStep ==
  ASSUME IInv, IssueInv', NEW e \in Exec,
         UNCHANGED <<shipments, current, group, replaceVars>>,
         \A j \in Work : batch[j] = "ALLOCATED" => batch'[j] = "ALLOCATED",
         \A f \in Exec \ {e} : /\ reqPc'[f] = reqPc[f]
                               /\ plan'[f] = plan[f]
                               /\ answer'[f] = answer[f],
         reqPc'[e] \in {"prepared", "calling", "answered", "issued"},
         reqPc'[e] # "answered" => answer'[e] = None,
         \/ plan'[e].key = Initial
         \/ /\ plan'[e].key = plan[e].key
            /\ Working(e) \/ reqPc[e] = "allocating",
         Working(e)' => Expects(e)'
  PROVE  IInv'
<1>. USE DEF replaceVars, works, writes, registration, shipments
<1>1. ExpectInv'
  BY DEF IInv, ExpectInv, Expects, Working, Existing
<1>2. HighestInv'
  BY DEF IInv, HighestInv, Existing
<1>3. Keeps
  BY DEF Keeps, Open
<1>4. WorkTypes'
  BY DEF IInv, WorkTypes
<1>5. StageInv'
  BY DEF IInv, StageInv, Staged, Open
<1>6. ASSUME NEW f \in Exec \ {e}
      PROVE  Requested(f)' /\ \A j \in Work : Owned(f, j)'
  BY DEF IInv, RequestInv, Requested, OwnerInv, Owned, Working
<1>7. Requested(e)'
  <2>1. Requested(e)
    BY DEF IInv, RequestInv
  <2>. QED
    BY <2>1 DEF Requested, Elsewheres, Telling, Work, Working
<1>8. ASSUME NEW j \in Work PROVE Owned(e, j)'
  <2>1. Owned(e, j)
    BY DEF IInv, OwnerInv
  <2>. QED
    BY <2>1 DEF Owned, Work, Working
<1>. QED
  BY <1>1, <1>2, <1>3, <1>4, <1>5, <1>6, <1>7, <1>8, KeepsStep
     DEF IInv, RequestInv, OwnerInv

\* What a request that works on an issue knows.
LEMMA WorkerKnows ==
  ASSUME IInv, NEW e \in Exec, Working(e)
  PROVE  Expects(e) /\ plan[e].key \in Key
BY DEF IInv, ExpectInv, Expects, IssueInv, Types, RequestTypes

\* The revision that is prepared is higher than any other.
LEMMA HighestIsMax ==
  ASSUME IInv
  PROVE  LET S == {revision[s] : s \in Existing} \cup {0}
         IN  Max(S) \in Nat /\ \A s \in Existing : revision[s] <= Max(S)
<1>. DEFINE S == {revision[s] : s \in Existing} \cup {0}
<1>1. \A s \in Existing : revision[s] \in Nat
  BY DEF IInv, HighestInv
<1>2. \E h \in S : \A y \in S : h >= y
  BY <1>1 DEF IInv, HighestInv
<1>3. Max(S) \in S /\ \A y \in S : Max(S) >= y
  BY <1>2 DEF Max
<1>4. S \subseteq Nat
  BY <1>1
<1>5. \A s \in Existing : revision[s] \in S
  OBVIOUS
<1>. QED
  BY <1>3, <1>4, <1>5

LEMMA PreparesStep ==
  ASSUME IInv, NEW e \in Exec, NEW k \in Key, Prepare(e, k),
         UNCHANGED replaceVars,
         \/ k = Initial /\ reqPc[e] = "idle"
         \/ reqPc[e] = "allocating" /\ plan[e].key = k
  PROVE  IInv'
<1>1. IssueInv'
  BY PrepareStep DEF IInv, Working
<1>. DEFINE S == {revision[s] : s \in Existing} \cup {0}
<1>2. Max(S) \in Nat /\ \A s \in Existing : revision[s] <= Max(S)
  BY HighestIsMax
<1>3. PICK h \in Nat : h = Max(S) /\ \A s \in Existing : revision[s] <= h
  BY <1>2
<1>. HIDE DEF S
<1>4. /\ reqPc'[e] = "prepared"
      /\ plan'[e] = [key |-> k, attempt |-> attempt[k] + 1,
                     expected |-> current, revision |-> h + 1]
      /\ answer' = answer
      /\ \A f \in Exec \ {e} : reqPc'[f] = reqPc[f] /\ plan'[f] = plan[f]
  BY <1>3 DEF Prepare, S, IInv, IssueInv, Types, RequestTypes
<1>5. \A j \in Key : batch[j] = "ALLOCATED" => batch'[j] = "ALLOCATED"
  BY DEF Prepare, Replayed, IInv, IssueInv, Types, BatchTypes, None
<1>6. answer'[e] = None
  BY <1>4 DEF IInv, RequestInv, Requested
<1>7. Expects(e)'
  <2>1. /\ k = Initial => current = None
        /\ k # Initial => current # None
    BY DEF Prepare, Issuable
  <2>2. current # None => current \in Existing
    BY DEF IInv, IssueInv, CurrentInv
  <2>3. Existing' = Existing /\ revision' = revision
    BY DEF Prepare, shipments, Existing
  <2>4. \A s \in Existing : revision[s] \in Nat
    BY DEF IInv, HighestInv
  <2>. QED
    BY <1>3, <1>4, <2>1, <2>2, <2>3, <2>4 DEF Expects
<1>8. UNCHANGED <<shipments, current, group>>
  BY DEF Prepare
<1>9. plan'[e].key = k
  BY <1>4
<1>. QED
  BY <1>1, <1>4, <1>5, <1>6, <1>7, <1>8, <1>9, IssuingStep DEF Work

\* The steps of a request up to its answer.
LEMMA UnstoredStep ==
  ASSUME IInv, NEW e \in Exec, UNCHANGED replaceVars,
         MarkDispatched(e) \/ DispatchFails(e) \/ Call(e) \/ StoreFails(e)
  PROVE  IInv'
<1>1. IssueInv'
  BY MarkStep, DispatchFailsStep, CallStep, StoreFailsStep DEF IInv
<1>2. Working(e)
  BY DEF MarkDispatched, DispatchFails, Call, StoreFails, Working
<1>3. Expects(e) /\ plan[e].key \in Key /\ RequestTypes
  BY <1>2, WorkerKnows DEF IInv, IssueInv, Types
<1>4. /\ UNCHANGED <<shipments, current, group, batch>>
      /\ \A f \in Exec \ {e} : /\ reqPc'[f] = reqPc[f]
                               /\ plan'[f] = plan[f]
                               /\ answer'[f] = answer[f]
      /\ reqPc'[e] \in {"calling", "answered", "issued"}
      /\ plan'[e].key = plan[e].key
      /\ reqPc'[e] # "issued" => plan'[e] = plan[e]
      /\ reqPc'[e] # "answered" => answer'[e] = None
  <2>1. reqPc[e] # "answered" => answer[e] = None
    BY DEF IInv, RequestInv, Requested
  <2>2. CASE MarkDispatched(e) /\ Moves(e, "calling")
    BY <1>3, <2>1, <2>2 DEF MarkDispatched, Moves, RequestTypes
  <2>3. CASE MarkDispatched(e) /\ GoesOn(e, "issued", plan[e].key)
    BY <1>3, <2>3 DEF MarkDispatched, GoesOn, Turns, RequestTypes, NoPlan
  <2>4. CASE DispatchFails(e)
    BY <1>3, <2>4 DEF DispatchFails, RequestTypes
  <2>5. CASE Call(e)
    BY <1>3, <2>5 DEF Call, RequestTypes, batches
  <2>6. CASE StoreFails(e)
    BY <1>3, <2>6 DEF StoreFails, RequestTypes, batches
  <2>. QED
    BY <2>2, <2>3, <2>4, <2>5, <2>6 DEF MarkDispatched
<1>5. Working(e)' => Expects(e)'
  BY <1>3, <1>4 DEF Working, Expects, Existing, shipments
<1>6. /\ reqPc'[e] \in {"prepared", "calling", "answered", "issued"}
      /\ \A j \in Work : batch[j] = "ALLOCATED" => batch'[j] = "ALLOCATED"
  BY <1>4
<1>. QED
  BY <1>1, <1>2, <1>4, <1>5, <1>6, IssuingStep

\* The number of an answer is stored, and with it the shipment.
LEMMA StoresStep ==
  ASSUME IInv, NEW e \in Exec, UNCHANGED replaceVars, Store(e)
  PROVE  IInv'
<1>1. IssueInv'
  BY StoreStep DEF IInv
<1>2. PICK k \in Key : k = plan[e].key
  BY DEF IInv, IssueInv, Types, RequestTypes
<1>3. Working(e) /\ Expects(e)
  BY WorkerKnows DEF Store, Working
<1>4. /\ reqPc'[e] = "issued" /\ plan'[e].key = k /\ answer'[e] = None
      /\ \A f \in Exec \ {e} : /\ reqPc'[f] = reqPc[f]
                               /\ plan'[f] = plan[f]
                               /\ answer'[f] = answer[f]
  BY <1>2, Turned DEF Store, GoesOn, Aside
<1>5. \A j \in Key : batch[j] = "ALLOCATED" => batch'[j] = "ALLOCATED"
  BY <1>2 DEF Store, MayStore, Attempting, IInv, IssueInv, Types, BatchTypes
<1>6. group' = group /\ ~Working(e)'
  BY <1>4 DEF Store, Working
<1>7. CASE UNCHANGED <<shipments, current>>
  BY <1>1, <1>2, <1>3, <1>4, <1>5, <1>6, <1>7, IssuingStep DEF Work
<1>8. CASE MayStore(e) /\ Persists(e)
  <2>. USE DEF replaceVars, works, writes, registration
  <2>1. batch[k] = "ALLOCATING" /\ current = plan[e].expected
    BY <1>2, <1>8 DEF MayStore, Attempting, Persists, Unchanged
  <2>2. PICK r \in Nat : r = plan[e].revision
    BY <1>3 DEF Expects
  <2>3. invoice[k] = None /\ k \notin Existing /\ current # k
    <3>1. invoice[k] = None
      BY <2>1 DEF IInv, IssueInv, StoredAsGiven
    <3>2. k \notin Existing
      BY <3>1 DEF Existing
    <3>. QED
      BY <3>1, <3>2 DEF IInv, IssueInv, CurrentInv
  <2>4. /\ invoice' = [invoice EXCEPT ![k] = "ALLOCATED"]
        /\ revision' = [revision EXCEPT ![k] = r]
        /\ current' = IF k = Initial THEN k ELSE current
    BY <1>2, <1>8, <2>2 DEF Store, Allocates
  <2>5. /\ invoice'[k] = "ALLOCATED" /\ revision'[k] = r
        /\ \A j \in Key \ {k} : invoice'[j] = invoice[j]
                                  /\ revision'[j] = revision[j]
        /\ Existing' = Existing \cup {k}
    BY <2>4 DEF IInv, IssueInv, Types, BatchTypes, Existing, None
  <2>6. \A s \in Existing : revision'[s] = revision[s]
    BY <2>3, <2>5 DEF Existing
  <2>7. k \in Work =>
          /\ current \in Existing /\ current' = current
          /\ r > revision[current]
    <3>1. k \in Work => k # Initial
      BY DEF Work
    <3>2. \A s \in Existing : revision[s] \in Nat
      BY DEF IInv, HighestInv
    <3>. QED
      BY <1>2, <1>3, <2>1, <2>2, <2>4, <3>1, <3>2 DEF Expects
  <2>8. k \in Work => Staged(k) /\ ~candidate[k] /\ ~updated[k]
                        /\ work[k] \notin {None, "COMPLETED"}
    <3>1. k \in Work => Staged(k) /\ Requested(e)
      BY DEF IInv, StageInv, RequestInv
    <3>2. k \in Work => ~candidate[k]
      BY <2>1, <3>1 DEF Staged
    <3>3. k \in Work => work[k] # None
      BY <1>2, <1>3, <3>1 DEF Requested, Working
    <3>. QED
      BY <3>1, <3>2, <3>3 DEF Staged
  <2>9. k = Initial =>
          current = None /\ group = "FROZEN" /\ \A j \in Work : ~Open(j)
    BY <1>2, <1>3, <2>1 DEF Expects, IInv, HoldInv
  <2>10. ExpectInv'
    <3>1. ASSUME NEW f \in Exec, Working(f)' PROVE Expects(f)'
      <4>1. f # e /\ Working(f)
        BY <1>4, <3>1 DEF Working
      <4>2. Expects(f)
        BY <4>1, WorkerKnows
      <4>. QED
        BY <1>4, <2>5, <2>6, <4>1, <4>2 DEF Expects
    <3>. QED
      BY <3>1 DEF ExpectInv, Expects
  <2>11. HighestInv'
    <3>1. PICK h \in Nat : /\ h \in {revision[s] : s \in Existing} \cup {0}
                           /\ \A s \in Existing : revision[s] <= h
      BY DEF IInv, HighestInv
    <3>2. \A s \in Existing : revision[s] \in Nat
      BY DEF IInv, HighestInv
    <3>3. \A s \in Existing' : revision'[s] \in Nat
      BY <2>5, <2>6, <3>2
    <3>4. CASE r > h
      <4>1. r \in {revision'[s] : s \in Existing'}
        BY <2>5
      <4>2. \A s \in Existing' : revision'[s] <= r
        BY <2>5, <2>6, <3>1, <3>2, <3>4
      <4>. QED
        BY <3>3, <4>1, <4>2 DEF HighestInv
    <3>5. CASE r <= h
      <4>1. h \in {revision'[s] : s \in Existing'} \cup {0}
        BY <2>5, <2>6, <3>1
      <4>2. \A s \in Existing' : revision'[s] <= h
        BY <2>5, <2>6, <3>1, <3>5
      <4>. QED
        BY <3>3, <4>1, <4>2 DEF HighestInv
    <3>. QED
      BY <3>4, <3>5
  <2>12. WorkTypes'
    BY <1>6 DEF IInv, WorkTypes
  <2>13. RequestInv'
    <3>1. \A f \in Exec : Requested(f)
      BY DEF IInv, RequestInv
    <3>. QED
      BY <1>2, <1>3, <1>4, <3>1
         DEF RequestInv, Requested, Elsewheres, Telling, Working
  <2>14. OwnerInv'
    <3>1. ASSUME NEW f \in Exec, NEW j \in Work PROVE Owned(f, j)'
      <4>1. Owned(f, j)
        BY DEF IInv, OwnerInv
      <4>. QED
        BY <1>2, <1>3, <1>4, <4>1 DEF Owned, Working
    <3>. QED
      BY <3>1 DEF OwnerInv
  <2>15. StageInv'
    <3>1. ASSUME NEW j \in Work PROVE Staged(j)'
      <4>1. Staged(j) /\ (batch[j] = "ALLOCATED" => batch'[j] = "ALLOCATED")
              /\ (work[j] = None => invoice'[j] = invoice[j])
        BY <1>5, <2>5, <2>8 DEF IInv, StageInv, Work
      <4>. QED
        BY <4>1 DEF Staged, Open
    <3>. QED
      BY <3>1 DEF StageInv
  <2>16. HoldInv'
    BY <1>6, <2>4, <2>7, <2>9 DEF IInv, HoldInv, Open, Work
  <2>17. InvoiceInv'
    <3>1. current' # None => /\ invoice'[current'] \in {"ALLOCATED", "REGISTERED"}
                             /\ current' \in Work => updated'[current']
      BY <2>3, <2>4, <2>5 DEF IInv, InvoiceInv, IssueInv, CurrentInv, Existing,
         Work
    <3>2. \A j \in Work : ~updated'[j] => invoice'[j] \in {None, "ALLOCATED"}
      BY <2>5 DEF IInv, InvoiceInv, Work
    <3>3. ASSUME NEW j \in Work, Open(j)', ~updated'[j], j \in Existing'
          PROVE  revision'[j] > revision'[old'[j]]
      <4>1. Open(j) /\ old'[j] = current /\ k # Initial
        BY <2>9, <3>3 DEF Open, IInv, HoldInv
      <4>2. k \in Work /\ current \in Existing
              /\ revision'[current] = revision[current]
        BY <2>6, <2>7, <4>1 DEF Work
      <4>3. CASE j = k
        BY <2>5, <2>7, <4>1, <4>2, <4>3
      <4>4. CASE j # k
        <5>1. j \in Existing /\ old[j] = current
          BY <2>5, <3>3, <4>1, <4>4
        <5>2. revision[j] > revision[current]
          BY <3>3, <4>1, <5>1 DEF IInv, InvoiceInv
        <5>. QED
          BY <2>6, <4>1, <4>2, <5>1, <5>2
      <4>. QED
        BY <4>3, <4>4
    <3>. QED
      BY <3>1, <3>2, <3>3 DEF InvoiceInv
  <2>18. OldIsHandled'
    <3>1. ASSUME NEW j \in Work, Open(j), ~updated[j]
          PROVE  invoice'[old[j]] = invoice[old[j]]
      <4>1. old[j] = current /\ k # Initial
        BY <2>9, <3>1 DEF IInv, HoldInv
      <4>. QED
        BY <2>3, <2>5, <2>7, <4>1 DEF Work, Existing
    <3>. QED
      BY <3>1 DEF IInv, OldIsHandled, Open
  <2>19. NumbersAccountedFor'
    <3>1. k \in Work => Open(k) \/ work[k] = "CANCELED"
      BY <2>8 DEF Open
    <3>2. k = Initial => current' = k /\ current \notin Existing
      BY <2>4, <2>9 DEF Existing
    <3>3. k \in Work => current' = current
      BY <2>7
    <3>4. k \in Work \/ k = Initial
      BY DEF Work
    <3>. QED
      BY <2>5, <3>1, <3>2, <3>3, <3>4 DEF IInv, NumbersAccountedFor, Open,
         Existing
  <2>. QED
    BY <1>1, <2>10, <2>11, <2>12, <2>13, <2>14, <2>15, <2>16, <2>17, <2>18,
       <2>19 DEF IInv
<1>. QED
  BY <1>7, <1>8 DEF Store

\* What the recovery does to a batch disturbs no candidate.
LEMMA BatchStep ==
  ASSUME IInv, NEW k \in Key, BatchAges(k) \/ Recover(k), UNCHANGED replaceVars
  PROVE  IInv'
<1>. USE DEF replaceVars, works, writes, registration, shipments, requests
<1>1. IssueInv'
  BY AgesStep, RecoverStep DEF IInv
<1>2. UNCHANGED <<invoice, revision, current, group, reqPc, plan, answer>>
  BY DEF BatchAges, Recover
<1>3. \A j \in Key : batch[j] = "ALLOCATED" => batch'[j] = "ALLOCATED"
  BY DEF BatchAges, Recover, IInv, IssueInv, Types, BatchTypes
<1>4. ExpectInv' /\ HighestInv'
  BY <1>2 DEF IInv, ExpectInv, HighestInv, Working, Existing
<1>5. Keeps
  BY <1>2 DEF Keeps, Open
<1>6. WorkTypes'
  BY <1>2 DEF IInv, WorkTypes
<1>7. RequestInv' /\ OwnerInv'
  BY <1>2 DEF IInv, RequestInv, Requested, OwnerInv, Owned, Working
<1>8. StageInv'
  BY <1>2, <1>3 DEF IInv, StageInv, Staged, Open, Work
<1>. QED
  BY <1>1, <1>4, <1>5, <1>6, <1>7, <1>8, KeepsStep DEF IInv

LEMMA NextIInv == IInv /\ [Next]_vars => IInv'
<1>. SUFFICES ASSUME IInv, [Next]_vars PROVE IInv'
  OBVIOUS
<1>1. ASSUME NEW e \in Exec, Asked(e) PROVE IInv'
  <2>1. CASE IssueFirst(e)
    BY <2>1, PreparesStep, ReplayStep DEF IssueFirst, Work
  <2>2. CASE \E k \in Work : Start(e, k) \/ ClaimConfirm(e, k)
                               \/ Resume(e, k) \/ ClaimCancel(e, k)
    BY <2>2, StartStep, ClaimConfirmStep, ResumeStep, ClaimCancelStep
  <2>. QED
    BY <1>1, <2>1, <2>2, IssuedFirstStep, ConfirmStep, ConfirmFailsStep,
       ResumedStep, CancelStep DEF Asked
<1>2. ASSUME NEW e \in Exec, Carried(e) PROVE IInv'
  <2>1. CASE Allocate(e)
    <3>1. plan[e].key \in Work
      BY <2>1 DEF Allocate, IInv, RequestInv, Requested, Elsewheres
    <3>2. PICK k \in Key : k = plan[e].key
      BY <3>1 DEF Work
    <3>. QED
      BY <2>1, <3>2, PreparesStep, ReplayStep DEF Allocate
  <2>2. CASE Issue(e) /\ UNCHANGED replaceVars
    BY <2>2, UnstoredStep, StoresStep DEF Issue
  <2>. QED
    BY <1>2, <2>1, <2>2, ContinueStep, AllocatedStep, ReviewStep, SubmitStep,
       WriteStep, CalledStep, FinalizeStep, FinalizeFailsStep, DiesStep
       DEF Carried
<1>3. CASE Background
  <2>1. CASE \E k \in Work : TokenAges(k) \/ RecoverWrite(k)
                               \/ ReviewWrite(k) \/ Project(k)
    BY <2>1, TokenAgesStep, RecoverWriteStep, ReviewWriteStep, ProjectStep
  <2>2. CASE \E s \in Key : RegisterSubmit(s) \/ RegisterAnswered(s)
                              \/ RegisterAgain(s) \/ PrintLabel(s)
    BY <2>2, RegistrationStep, RegisterAnsweredStep
  <2>. QED
    BY <1>3, <2>1, <2>2, ReadyStep, BatchStep DEF Background
<1>4. CASE UNCHANGED vars
  <2>. USE <1>4 DEF vars, replaceVars, registration
  <2>1. register' \in [Key -> {None, "PENDING", "SUBMITTING", "REGISTERED",
                               "BLOCKED"}]
    BY DEF IInv, WorkTypes
  <2>. QED
    BY <2>1, RegisterStep
<1>. QED
  BY <1>1, <1>2, <1>3, <1>4 DEF Next

\* The inductive invariant holds in every behaviour of the replacement.
THEOREM ReplacementInductive == Spec => []IInv
  BY InitIInv, NextIInv, PTL DEF Spec

\* Every variable holds a value of its type; a token is for a work that is
\* open, a write that is being sent has its caller, and a work whose number
\* is current was confirmed by the channel.
THEOREM ReplacementTypeCorrect == Spec => []ReplacementTypeOK
<1>1. IInv => ReplacementTypeOK
  BY DEF IInv, IssueInv, Types, BatchTypes, RequestTypes, CurrentInv, Existing,
     WorkTypes, StageInv, Staged, ReplacementTypeOK
<1>. QED
  BY <1>1, ReplacementInductive, PTL

\* createReplacementHold and the release hold a group for one work at a time,
\* which the current invoice belongs to.
THEOREM HeldByOneWorkAlways == Spec => []HeldByOneWork
<1>1. ASSUME IInv PROVE HeldByOneWork
  <2>. DEFINE open == {k \in Work : Open(k)}
  <2>1. \A j, k \in open : j = k
    BY <1>1 DEF IInv, HoldInv
  <2>2. Cardinality(open) <= 1
    <3>1. CASE open = {}
      BY <3>1, FS_EmptySet
    <3>2. CASE open # {}
      <4>1. PICK k : open = {k}
        BY <2>1, <3>2
      <4>2. Cardinality({k}) = 1
        BY FS_Singleton
      <4>. QED
        BY <4>1, <4>2
    <3>. QED
      BY <3>1, <3>2
  <2>3. group = "ON_HOLD" <=> open # {}
    BY <1>1 DEF IInv, HoldInv
  <2>4. \A k \in open : current = IF updated[k] THEN k ELSE old[k]
    BY <1>1 DEF IInv, HoldInv
  <2>. QED
    BY <2>2, <2>3, <2>4 DEF HeldByOneWork
<1>. QED
  BY <1>1, ReplacementInductive, PTL

\* allocateCarrierInvoiceReplacementCandidate is the point of no return:
\* cancelCarrierInvoiceReplacement gives up no work that has a candidate, and
\* the channel is told of no other.
THEOREM ToldIsKeptAlways == Spec => []ToldIsKept
<1>1. ASSUME IInv PROVE ToldIsKept
  <2>1. \A k \in told : k \in Work /\ Staged(k)
    BY <1>1 DEF IInv, WorkTypes, StageInv
  <2>. QED
    BY <2>1 DEF ToldIsKept, Staged, Open
<1>. QED
  BY <1>1, ReplacementInductive, PTL

\* createReplacementHold lets no registered invoice be replaced before a
\* person has handled it, and no registration comes in between.
THEOREM OldIsHandledAlways == Spec => []OldIsHandled
<1>1. IInv => OldIsHandled
  BY DEF IInv
<1>. QED
  BY <1>1, ReplacementInductive, PTL

\* finalizePersistedCoupangInvoiceUpdate replaces the invoice that was
\* current, and no other invoice is left over.
THEOREM NumbersAccountedForAlways == Spec => []NumbersAccountedFor
<1>1. IInv => NumbersAccountedFor
  BY DEF IInv
<1>. QED
  BY <1>1, ReplacementInductive, PTL

-----------------------------------------------------------------------------
(* The issues as CarrierIssue specifies them.                                *)

RP == [e \in Exec |-> IF Issuing(e) THEN reqPc[e] ELSE "idle"]
PL == [e \in Exec |-> IF Issuing(e) THEN plan[e] ELSE NoPlan]

LEMMA Mapped ==
  ASSUME NEW e \in Exec,
         \A f \in Exec \ {e} : reqPc'[f] = reqPc[f] /\ plan'[f] = plan[f]
  PROVE  /\ RP' = [RP EXCEPT ![e] = IF Issuing(e)' THEN reqPc'[e] ELSE "idle"]
         /\ PL' = [PL EXCEPT ![e] = IF Issuing(e)' THEN plan'[e] ELSE NoPlan]
BY DEF RP, PL, Issuing

LEMMA BlankPlan == [NoPlan EXCEPT !.key = Initial] = NoPlan
BY DEF NoPlan

USE DEF Issues!batches, batches, Issues!shipments, shipments, Issues!carrier,
        carrier, Issues!NoPlan, NoPlan, Issues!None, None

\* A request that stays outside the issues is not seen by them.
LEMMA AsideMaps ==
  ASSUME IInv, NEW e \in Exec, NEW to, NEW k, Aside(e, to, k),
         reqPc[e] # "answered",
         to \notin {"prepared", "calling", "answered", "issued"}
  PROVE  /\ ~Issuing(e) => RP' = RP /\ PL' = PL
         /\ RP' = [RP EXCEPT ![e] = "idle"] /\ PL' = [PL EXCEPT ![e] = NoPlan]
         /\ answer' = answer /\ answer' = [answer EXCEPT ![e] = None]
<1>1. /\ RP' = [RP EXCEPT ![e] = "idle"]
      /\ PL' = [PL EXCEPT ![e] = NoPlan]
  BY Mapped DEF Aside, Issuing
<1>2. ~Issuing(e) => RP[e] = "idle" /\ PL[e] = NoPlan
  BY DEF RP, PL
<1>3. /\ RP = [f \in Exec |-> RP[f]]
      /\ PL = [f \in Exec |-> PL[f]]
  BY DEF RP, PL
<1>4. answer[e] = None
  BY DEF IInv, RequestInv, Requested
<1>5. /\ answer \in [Exec -> Answer \cup {None, "unsent"}]
      /\ answer' \in [Exec -> Answer \cup {None, "unsent"}]
  BY DEF Aside, IInv, IssueInv, Types, RequestTypes
<1>6. \A f \in Exec : answer'[f] = answer[f]
  BY <1>4 DEF Aside
<1>7. answer' = answer /\ answer' = [answer EXCEPT ![e] = None]
  BY <1>4, <1>5, <1>6
<1>8. ~Issuing(e) => RP' = RP
  BY <1>1, <1>2, <1>3
<1>9. ~Issuing(e) => PL' = PL
  BY <1>1, <1>2, <1>3
<1>. QED
  BY <1>1, <1>7, <1>8, <1>9

LEMMA SeenReturn ==
  ASSUME IInv, NEW e \in Exec, NEW to, NEW k, Aside(e, to, k),
         reqPc[e] = "issued",
         to \notin {"prepared", "calling", "answered", "issued"},
         UNCHANGED <<batches, shipments, current, group, carrier, faults>>
  PROVE  Issues!Returns(e)
<1>1. /\ RP' = [RP EXCEPT ![e] = "idle"] /\ PL' = [PL EXCEPT ![e] = NoPlan]
      /\ answer' = [answer EXCEPT ![e] = None]
  BY AsideMaps
<1>2. RP[e] = "issued"
  BY DEF RP, Issuing
<1>. QED
  BY <1>1, <1>2, BlankPlan
     DEF Issues!Returns, Issues!Stops, Issues!GoesOn, Issues!Turns,
     RP, PL

\* A fault elsewhere is not seen either.
LEMMA SeenElsewhere ==
  ASSUME IInv, NEW e \in Exec, NEW to, NEW k, Aside(e, to, k), ~Issuing(e),
         to \notin {"prepared", "calling", "answered", "issued"},
         Faulty, UNCHANGED <<batches, shipments, current, group, carrier>>
  PROVE  Issues!Elsewhere
<1>1. RP' = RP /\ PL' = PL /\ answer' = answer
  BY AsideMaps DEF Issuing
<1>. QED
  BY <1>1 DEF Issues!Elsewhere, Issues!Faulty, Faulty, RP, PL

LEMMA SeenDeath ==
  ASSUME IInv, NEW e \in Exec, Dies(e)
  PROVE  Issues!IssueDies(e) \/ Issues!Elsewhere
<1>1. Aside(e, "idle", Initial)
  BY Turned DEF Dies, Breaks
<1>2. CASE Issuing(e)
  <2>1. RP[e] = reqPc[e]
    BY <1>2 DEF RP
  <2>2. RP' = [RP EXCEPT ![e] = "idle"] /\ PL' = [PL EXCEPT ![e] = NoPlan]
    BY <1>1, Mapped DEF Aside, Issuing
  <2>3. RP[e] # "idle" /\ answer' = [answer EXCEPT ![e] = None] /\ Faulty
    BY <2>1 DEF Dies, Breaks, Turns
  <2>. QED
    BY <2>2, <2>3, BlankPlan
       DEF Issues!IssueDies, Issues!Breaks, Issues!Turns, Issues!Faulty, RP,
       PL, Faulty, Dies
<1>3. CASE ~Issuing(e)
  BY <1>1, <1>3, SeenElsewhere DEF Dies, Breaks
<1>. QED
  BY <1>2, <1>3

LEMMA SeenTurn ==
  ASSUME IInv, NEW e \in Exec, NEW k \in Key, GoesOn(e, "issued", k)
  PROVE  Issues!GoesOn(e, "issued", k)
<1>1. Aside(e, "issued", k)
  BY Turned DEF GoesOn
<1>2. plan'[e] = [NoPlan EXCEPT !.key = k]
  BY DEF GoesOn, Turns, IInv, IssueInv, Types, RequestTypes
<1>3. /\ RP' = [RP EXCEPT ![e] = "issued"]
      /\ PL' = [PL EXCEPT ![e] = [NoPlan EXCEPT !.key = k]]
  BY <1>1, <1>2, Mapped DEF Aside, Issuing
<1>. QED
  BY <1>3 DEF Issues!GoesOn, Issues!Turns, GoesOn, Turns, RP, PL

\* A request that works on an issue is seen as it is.
LEMMA SeenAtWork ==
  ASSUME NEW e \in Exec, Working(e)
  PROVE  /\ RP[e] = reqPc[e] /\ PL[e] = plan[e]
         /\ Issues!Attempting(e) <=> Attempting(e)
<1>1. Issuing(e)
  BY DEF Issuing, Working
<1>2. PL[e] = plan[e] /\ RP[e] = reqPc[e]
  BY <1>1 DEF PL, RP
<1>3. Issues!Attempting(e) <=> Attempting(e)
  BY <1>2 DEF Issues!Attempting, Attempting, PL
<1>. QED
  BY <1>2, <1>3

LEMMA SeenMoved ==
  ASSUME IInv, NEW e \in Exec, Working(e), NEW to \in {"calling", "answered"},
         reqPc' = [reqPc EXCEPT ![e] = to], UNCHANGED plan
  PROVE  RP' = [RP EXCEPT ![e] = to] /\ PL' = PL
<1>1. /\ reqPc'[e] = to
      /\ \A f \in Exec \ {e} : reqPc'[f] = reqPc[f]
  BY DEF IInv, IssueInv, Types, RequestTypes
<1>2. Issuing(e) /\ Issuing(e)'
  BY <1>1 DEF Issuing, Working
<1>3. /\ RP' = [RP EXCEPT ![e] = to]
      /\ PL' = [PL EXCEPT ![e] = plan[e]]
  BY <1>1, <1>2, Mapped
<1>4. PL[e] = plan[e] /\ PL = [f \in Exec |-> PL[f]]
  BY <1>2 DEF PL
<1>. QED
  BY <1>3, <1>4

LEMMA SeenMark ==
  ASSUME IInv, NEW e \in Exec, MarkDispatched(e)
  PROVE  Issues!MarkDispatched(e)
<1>1. Working(e) /\ reqPc[e] = "prepared"
  BY DEF MarkDispatched, Working
<1>2. /\ RP[e] = "prepared" /\ PL[e] = plan[e]
      /\ Issues!Attempting(e) <=> Attempting(e)
  BY <1>1, SeenAtWork
<1>3. PICK k \in Key : k = plan[e].key
  BY <1>1, WorkerKnows
<1>4. CASE Attempting(e)
  <2>1. RP' = [RP EXCEPT ![e] = "calling"] /\ PL' = PL
    BY <1>1, <1>4, SeenMoved DEF MarkDispatched, Moves
  <2>2. dispatched' = [dispatched EXCEPT ![PL[e].key] = TRUE]
    BY <1>2, <1>4 DEF MarkDispatched
  <2>. QED
    BY <1>2, <1>4, <2>1, <2>2
       DEF Issues!MarkDispatched, Issues!Moves, MarkDispatched, Moves, RP, PL
<1>5. CASE ~Attempting(e)
  <2>1. Issues!GoesOn(e, "issued", k) /\ UNCHANGED dispatched
    BY <1>3, <1>5, SeenTurn DEF MarkDispatched
  <2>2. Issues!GoesOn(e, "issued", PL[e].key)
    BY <1>2, <1>3, <2>1
  <2>. QED
    BY <1>2, <1>5, <2>1, <2>2
       DEF Issues!MarkDispatched, MarkDispatched, RP, PL
<1>. QED
  BY <1>4, <1>5

LEMMA SeenDispatchFails ==
  ASSUME IInv, NEW e \in Exec, DispatchFails(e)
  PROVE  Issues!DispatchFails(e)
<1>1. Working(e) /\ reqPc[e] = "prepared"
  BY DEF DispatchFails, Working
<1>2. /\ RP[e] = "prepared" /\ PL[e] = plan[e]
      /\ Issues!Attempting(e) <=> Attempting(e)
  BY <1>1, SeenAtWork
<1>3. RP' = [RP EXCEPT ![e] = "answered"] /\ PL' = PL
  BY <1>1, SeenMoved DEF DispatchFails
<1>4. \/ UNCHANGED dispatched
      \/ /\ Issues!Attempting(e)
         /\ dispatched' = [dispatched EXCEPT ![PL[e].key] = TRUE]
  BY <1>2 DEF DispatchFails
<1>. QED
  BY <1>2, <1>3, <1>4
     DEF Issues!DispatchFails, Issues!Faulty, DispatchFails, Faulty, RP, PL

LEMMA SeenCall ==
  ASSUME IInv, NEW e \in Exec, Call(e)
  PROVE  Issues!Call(e)
<1>1. Working(e) /\ reqPc[e] = "calling"
  BY DEF Call, Working
<1>2. RP[e] = "calling" /\ PL[e] = plan[e]
  BY <1>1, SeenAtWork
<1>3. RP' = [RP EXCEPT ![e] = "answered"] /\ PL' = PL
  BY <1>1, SeenMoved DEF Call
<1>4. \E a \in Answers, given \in 0..1 :
        /\ a \in {"number", "surplus"} => given = 1
        /\ a = "refused" => given = 0
        /\ answer' = [answer EXCEPT ![e] = a]
        /\ allotted' = [allotted EXCEPT ![PL[e].key] = @ + given]
        /\ misread' = IF a = "error" /\ given = 1
                        THEN misread \cup {PL[e].key} ELSE misread
  BY <1>2 DEF Call
<1>. QED
  BY <1>2, <1>3, <1>4 DEF Issues!Call, Call, RP, PL

LEMMA SeenStoreFails ==
  ASSUME IInv, NEW e \in Exec, StoreFails(e)
  PROVE  Issues!StoreFails(e)
<1>1. Working(e) /\ reqPc[e] = "answered"
  BY DEF StoreFails, Working
<1>2. RP[e] = "answered"
  BY <1>1, SeenAtWork
<1>3. RP' = RP /\ PL' = PL
  BY DEF StoreFails, RP, PL, Issuing
<1>. QED
  BY <1>2, <1>3
     DEF Issues!StoreFails, Issues!Faulty, StoreFails, Faulty, RP, PL

LEMMA SeenStore ==
  ASSUME IInv, NEW e \in Exec, Store(e)
  PROVE  Issues!Store(e)
<1>1. Working(e) /\ reqPc[e] = "answered"
  BY DEF Store, Working
<1>2. /\ RP[e] = "answered" /\ PL[e] = plan[e]
      /\ Issues!Attempting(e) <=> Attempting(e)
  BY <1>1, SeenAtWork
<1>3. PICK k \in Key : k = plan[e].key
  BY <1>1, WorkerKnows
<1>4. Issues!GoesOn(e, "issued", PL[e].key)
  BY <1>2, <1>3, SeenTurn DEF Store
<1>5. /\ Issues!MayStore(e) <=> MayStore(e)
      /\ Issues!Persists(e) <=> Persists(e)
  BY <1>2 DEF Issues!MayStore, MayStore, Issues!Persists, Persists,
     Issues!Unchanged, Unchanged, Issues!RevisionFree, RevisionFree,
     Issues!Existing, Existing, PL
<1>6. Issues!Verdict(e) = Verdict(e)
  BY <1>5 DEF Issues!Verdict, Verdict
<1>7. Issues!Allocates(e) <=> Allocates(e)
  BY <1>2 DEF Issues!Allocates, Allocates, PL
<1>. QED
  BY <1>2, <1>4, <1>5, <1>6, <1>7 DEF Issues!Store, Store, RP, PL

LEMMA SeenIssue ==
  ASSUME IInv, NEW e \in Exec, Issue(e)
  PROVE  Issues!Issue(e)
BY SeenMark, SeenDispatchFails, SeenCall, SeenStore, SeenStoreFails
   DEF Issue, Issues!Issue

\* A request that is asked, or that comes to it within its work.
LEMMA SeenAsk ==
  ASSUME IInv, NEW e \in Exec, NEW k \in Key, ~Issuing(e),
         Prepare(e, k) \/ Replay(e, k)
  PROVE  Issues!Asks(e, k)
<1>1. RP[e] = "idle"
  BY DEF RP
<1>2. Issues!Replayed(k) <=> Replayed(k)
  BY DEF Issues!Replayed, Replayed
<1>3. CASE Replay(e, k)
  <2>1. Issues!GoesOn(e, "issued", k)
    BY <1>3, SeenTurn DEF Replay
  <2>. QED
    BY <1>1, <1>2, <1>3, <2>1 DEF Issues!Asks, Issues!Replay, Replay, RP
<1>4. CASE Prepare(e, k)
  <2>1. Issues!Retries = Retries
    BY DEF Issues!Retries, Retries, Issues!MapThenSumSet, MapThenSumSet,
       Issues!MapThenFoldSet, MapThenFoldSet
  <2>2. \A S : Issues!Max(S) = Max(S)
    BY DEF Issues!Max, Max
  <2>3. Issues!Issuable(k) <=> Issuable(k)
    BY DEF Issues!Issuable, Issuable
  <2>. DEFINE r == Max({revision[s] : s \in Existing} \cup {0}) + 1
              p == [key |-> k, attempt |-> attempt[k] + 1,
                    expected |-> current, revision |-> r]
  <2>4. PICK q : q = p
    OBVIOUS
  <2>5. /\ reqPc' = [reqPc EXCEPT ![e] = "prepared"]
        /\ plan' = [plan EXCEPT ![e] = q]
    BY <1>4, <2>4 DEF Prepare
  <2>6. /\ reqPc'[e] = "prepared" /\ plan'[e] = q
        /\ \A f \in Exec \ {e} : reqPc'[f] = reqPc[f] /\ plan'[f] = plan[f]
    BY <2>5 DEF IInv, IssueInv, Types, RequestTypes
  <2>7. RP' = [RP EXCEPT ![e] = "prepared"] /\ PL' = [PL EXCEPT ![e] = q]
    BY <2>6, Mapped DEF Issuing
  <2>8. q = [key |-> k, attempt |-> attempt[k] + 1, expected |-> current,
             revision |->
               Issues!Max({revision[s] : s \in Issues!Existing} \cup {0}) + 1]
    BY <2>2, <2>4 DEF Issues!Existing, Existing
  <2>9. attempt[k] > 0 => Issues!Retries < MaxRetries
    BY <1>4, <2>1 DEF Prepare
  <2>. QED
    BY <1>1, <1>2, <1>4, <2>3, <2>7, <2>8, <2>9
       DEF Issues!Asks, Issues!Prepare, Prepare, RP, PL
<1>. QED
  BY <1>3, <1>4

\* A step that the issues do not see.
Unseen ==
  /\ UNCHANGED <<batches, shipments, current, group, answer, faults, carrier>>
  /\ RP' = RP /\ PL' = PL

LEMMA UnseenAside ==
  ASSUME IInv, NEW e \in Exec, NEW to, NEW k, Aside(e, to, k), ~Issuing(e),
         to \notin {"prepared", "calling", "answered", "issued"},
         UNCHANGED <<batches, shipments, current, group, carrier, faults>>
  PROVE  Unseen
BY AsideMaps DEF Unseen, Issuing

LEMMA UnseenStill ==
  ASSUME UNCHANGED <<batches, shipments, current, group, requests, carrier>>
  PROVE  Unseen
BY DEF Unseen, requests, RP, PL, Issuing

\* Requests that do not change are not seen to.
LEMMA SeenStill ==
  ASSUME UNCHANGED requests
  PROVE  UNCHANGED Issues!requests
BY DEF requests, Issues!requests, Issuing

\* What a step of the replacement is to the issues.
Seen == Issues!IssueNext \/ Unseen

\* The group is held, or let go.
LEMMA SeenRegroup ==
  ASSUME IInv, current # None,
         \/ group \in {"FROZEN", "ON_HOLD"} /\ group' = "READY"
         \/ group = "READY" /\ group' = "ON_HOLD",
         UNCHANGED <<batches, shipments, current, carrier>>,
         UNCHANGED Issues!requests
  PROVE  Issues!Regroup
BY DEF Issues!Regroup

LEMMA SeenAsked ==
  ASSUME IInv, NEW e \in Exec, Asked(e)
  PROVE  Seen
<1>. USE DEF Seen
<1>1. CASE IssueFirst(e)
  <2>1. Issues!Asks(e, Initial)
    BY <1>1, SeenAsk DEF IssueFirst, Issuing
  <2>. QED
    BY <2>1 DEF Issues!IssueNext
<1>2. CASE IssuedFirst(e)
  <2>1. Aside(e, "idle", Initial)
    BY <1>2, Turned DEF IssuedFirst, Stops, GoesOn
  <2>2. Issues!Returns(e)
    BY <1>2, <2>1, SeenReturn DEF IssuedFirst, Stops, GoesOn
  <2>. QED
    BY <2>2 DEF Issues!IssueNext
<1>3. ASSUME NEW k \in Work, ClaimConfirm(e, k) \/ Resume(e, k)
                               \/ ClaimCancel(e, k)
      PROVE  Seen
  <2>1. PICK to \in {"confirming", "resuming", "canceling"} :
          GoesOn(e, to, k) /\ reqPc[e] = "idle"
    BY <1>3 DEF ClaimConfirm, Resume, ClaimCancel, Claims
  <2>2. Aside(e, to, k)
    BY <2>1, Turned DEF GoesOn, Work
  <2>. QED
    BY <1>3, <2>1, <2>2, UnseenAside
       DEF ClaimConfirm, Resume, ClaimCancel, GoesOn, Issuing
<1>4. ASSUME NEW k \in Work, Start(e, k) PROVE Seen
  <2>1. current # None /\ group = "READY" /\ group' = "ON_HOLD"
    BY <1>4 DEF IInv, HoldInv, Start, MayHold
  <2>2. UNCHANGED Issues!requests
    <3>1. CASE UNCHANGED requests
      BY <3>1, SeenStill
    <3>2. CASE GoesOn(e, "continuing", k)
      <4>1. Aside(e, "continuing", k)
        BY <3>2, Turned DEF GoesOn, Work
      <4>2. RP' = RP /\ PL' = PL /\ answer' = answer /\ faults' = faults
        BY <1>4, <3>2, <4>1, AsideMaps DEF Issuing, Start, GoesOn
      <4>. QED
        BY <4>2 DEF Issues!requests, RP, PL
    <3>. QED
      BY <1>4, <3>1, <3>2 DEF Start, Claims
  <2>3. Issues!Regroup
    BY <1>4, <2>1, <2>2, SeenRegroup DEF Start
  <2>. QED
    BY <2>3 DEF Issues!IssueNext, Issues!Rest
<1>5. CASE Confirm(e) \/ Resumed(e)
  <2>1. Aside(e, "continuing", plan[e].key) /\ ~Issuing(e)
    BY <1>5, Moved DEF Confirm, Resumed, Issuing
  <2>. QED
    BY <1>5, <2>1, UnseenAside DEF Confirm, Resumed, Moves
<1>6. CASE ConfirmFails(e)
  <2>1. Aside(e, "idle", Initial) /\ ~Issuing(e)
    BY <1>6, Turned DEF ConfirmFails, Breaks, Issuing
  <2>2. Issues!Elsewhere
    BY <1>6, <2>1, SeenElsewhere DEF ConfirmFails, Breaks
  <2>. QED
    BY <2>2 DEF Issues!IssueNext, Issues!Rest
<1>7. CASE Cancel(e)
  <2>1. Aside(e, "idle", Initial) /\ ~Issuing(e)
    BY <1>7, Turned DEF Cancel, Stops, GoesOn, Issuing
  <2>2. RP' = RP /\ PL' = PL /\ answer' = answer /\ faults' = faults
    BY <1>7, <2>1, AsideMaps DEF Cancel, Stops, GoesOn, Issuing
  <2>3. UNCHANGED Issues!requests
    BY <2>2 DEF Issues!requests, RP, PL
  <2>4. current # None
    BY <1>7 DEF Cancel, IInv, HoldInv
  <2>5. Issues!Regroup
    BY <1>7, <2>3, <2>4, SeenRegroup DEF Cancel
  <2>. QED
    BY <2>5 DEF Issues!IssueNext, Issues!Rest
<1>. QED
  BY <1>1, <1>2, <1>3, <1>4, <1>5, <1>6, <1>7 DEF Asked

LEMMA SeenSwitch ==
  ASSUME NEW k \in Work, SwitchesTo(k), UNCHANGED Issues!requests
  PROVE  Issues!IssueNext
<1>1. Issues!Switched(k)
  BY DEF Issues!Switched, SwitchesTo
<1>. QED
  BY <1>1 DEF Issues!IssueNext, Issues!Rest, Work

LEMMA SeenFinalize ==
  ASSUME IInv, NEW e \in Exec, Finalize(e)
  PROVE  Seen
<1>1. reqPc[e] = "finalizing" /\ ~Issuing(e)
  BY DEF Finalize, Issuing
<1>2. CASE Stops(e) /\ \E k \in Work : SwitchesTo(k)
  <2>1. Aside(e, "idle", Initial)
    BY <1>2, Turned DEF Stops, GoesOn
  <2>2. RP' = RP /\ PL' = PL /\ answer' = answer /\ faults' = faults
    BY <1>1, <1>2, <2>1, AsideMaps DEF Stops, GoesOn
  <2>3. UNCHANGED Issues!requests
    BY <2>2 DEF Issues!requests, RP, PL
  <2>. QED
    BY <1>2, <2>3, SeenSwitch DEF Seen
<1>3. CASE Moves(e, "settling") /\ UNCHANGED <<invoice, current>>
  <2>1. Aside(e, "settling", plan[e].key)
    BY <1>1, <1>3, Moved
  <2>. QED
    BY <1>1, <1>3, <2>1, UnseenAside DEF Finalize, Moves, Seen
<1>. QED
  BY <1>2, <1>3, FinalizeStep

LEMMA SeenCarried ==
  ASSUME IInv, NEW e \in Exec, Carried(e)
  PROVE  Seen
<1>. USE DEF Seen
<1>1. CASE Continue(e) \/ Submit(e) \/ Write(e) \/ Called(e)
  <2>1. ~Issuing(e) /\ reqPc[e] # "answered"
    BY <1>1 DEF Continue, Submit, Write, Called, Issuing
  <2>2. PICK to \in Elsewheres : Moves(e, to)
    BY <1>1 DEF Continue, Submit, Write, Called, Elsewheres
  <2>3. Aside(e, to, plan[e].key)
    BY <2>1, <2>2, Moved
  <2>4. to \notin {"prepared", "calling", "answered", "issued"}
    BY DEF Elsewheres
  <2>5. UNCHANGED <<batches, shipments, current, group, carrier, faults>>
    BY <1>1, <2>2 DEF Continue, Submit, Write, Called, Moves
  <2>. QED
    BY <2>1, <2>3, <2>4, <2>5, UnseenAside
<1>2. CASE Allocate(e)
  <2>1. plan[e].key \in Work
    BY <1>2 DEF Allocate, IInv, RequestInv, Requested, Elsewheres
  <2>2. PICK k \in Key : k = plan[e].key
    BY <2>1 DEF Work
  <2>3. Issues!Asks(e, k)
    BY <1>2, <2>2, SeenAsk DEF Allocate, Issuing
  <2>. QED
    BY <2>3 DEF Issues!IssueNext
<1>3. CASE Allocated(e)
  <2>1. Aside(e, "submitting", plan[e].key)
    BY <1>3, Moved DEF Allocated
  <2>2. Issues!Returns(e)
    BY <1>3, <2>1, SeenReturn DEF Allocated, Moves
  <2>. QED
    BY <2>2 DEF Issues!IssueNext
<1>4. CASE Review(e)
  <2>1. Aside(e, "idle", Initial)
    BY <1>4, Turned DEF Review, Stops, GoesOn
  <2>2. UNCHANGED <<batches, shipments, current, group, carrier, faults>>
    BY <1>4 DEF Review, Stops, GoesOn
  <2>3. CASE reqPc[e] = "issued"
    <3>1. Issues!Returns(e)
      BY <2>1, <2>2, <2>3, SeenReturn
    <3>. QED
      BY <3>1 DEF Issues!IssueNext
  <2>4. CASE reqPc[e] # "issued"
    <3>1. ~Issuing(e)
      BY <1>4, <2>4 DEF Review, Issuing
    <3>. QED
      BY <2>1, <2>2, <3>1, UnseenAside
  <2>. QED
    BY <2>3, <2>4
<1>5. CASE FinalizeFails(e)
  <2>1. Requested(e) /\ reqPc[e] = "finalizing" /\ ~Issuing(e)
    BY <1>5 DEF IInv, RequestInv, FinalizeFails, Issuing
  <2>2. Aside(e, "settling", plan[e].key)
    BY <1>5, <2>1 DEF FinalizeFails, Aside, Requested, IInv, IssueInv, Types,
       RequestTypes
  <2>3. UNCHANGED <<batches, shipments, current, group, carrier>>
          /\ (Faulty \/ UNCHANGED faults)
    BY <1>5 DEF FinalizeFails
  <2>4. CASE Faulty
    <3>1. Issues!Elsewhere
      BY <2>1, <2>2, <2>3, <2>4, SeenElsewhere
    <3>. QED
      BY <3>1 DEF Issues!IssueNext, Issues!Rest
  <2>. QED
    BY <2>1, <2>2, <2>3, <2>4, UnseenAside
<1>6. CASE Issue(e)
  <2>1. Issues!Issue(e)
    BY <1>6, SeenIssue
  <2>. QED
    BY <2>1 DEF Issues!IssueNext
<1>7. CASE Dies(e)
  BY <1>7, SeenDeath DEF Issues!IssueNext, Issues!Rest
<1>. QED
  BY <1>1, <1>2, <1>3, <1>4, <1>5, <1>6, <1>7, SeenFinalize DEF Carried

LEMMA SeenBackground ==
  ASSUME IInv, Background
  PROVE  Seen
<1>. USE DEF Seen
<1>1. CASE Ready
  <2>1. Issues!Regroup
    BY <1>1, SeenRegroup, SeenStill DEF Ready
  <2>. QED
    BY <2>1 DEF Issues!IssueNext, Issues!Rest
<1>2. ASSUME NEW k \in Work, TokenAges(k) \/ RecoverWrite(k) PROVE Seen
  BY <1>2, UnseenStill DEF TokenAges, RecoverWrite, issueVars
<1>3. ASSUME NEW k \in Work, ReviewWrite(k) PROVE Seen
  <2>1. CASE SwitchesTo(k)
    <3>1. UNCHANGED Issues!requests
      BY <1>3, SeenStill DEF ReviewWrite
    <3>. QED
      BY <2>1, <3>1, SeenSwitch
  <2>2. CASE UNCHANGED <<invoice, current>>
    BY <1>3, <2>2, UnseenStill DEF ReviewWrite
  <2>. QED
    BY <1>3, <2>1, <2>2, ReviewWriteStep
<1>4. ASSUME NEW k \in Work, Project(k) PROVE Seen
  <2>1. group = "ON_HOLD" /\ current = k /\ current # None
    BY <1>4 DEF Project, IInv, HoldInv, Work
  <2>2. /\ UNCHANGED <<batches, shipments, current, requests, carrier>>
        /\ group' = "READY" \/ UNCHANGED group
    BY <1>4 DEF Project
  <2>3. CASE group' = "READY"
    <3>1. Issues!Regroup
      BY <2>1, <2>2, <2>3, SeenRegroup, SeenStill
    <3>. QED
      BY <3>1 DEF Issues!IssueNext, Issues!Rest
  <2>. QED
    BY <2>2, <2>3, UnseenStill
<1>5. ASSUME NEW s \in Key, RegisterSubmit(s) \/ RegisterAgain(s)
                              \/ PrintLabel(s)
      PROVE  Seen
  BY <1>5, UnseenStill DEF RegisterSubmit, RegisterAgain, PrintLabel, issueVars
<1>6. ASSUME NEW s \in Key, RegisterAnswered(s) PROVE Seen
  <2>1. CASE UNCHANGED invoice
    BY <1>6, <2>1, UnseenStill DEF RegisterAnswered
  <2>2. CASE /\ current = s /\ current # None
             /\ invoice[current] \in {"ALLOCATED", "REGISTERED"}
             /\ invoice' = [invoice EXCEPT ![current] = "REGISTERED"]
    <3>1. UNCHANGED Issues!requests
      BY <1>6, SeenStill DEF RegisterAnswered
    <3>2. Issues!Registered
      BY <1>6, <2>2, <3>1 DEF Issues!Registered, RegisterAnswered
    <3>. QED
      BY <3>2 DEF Issues!IssueNext, Issues!Rest
  <2>. QED
    BY <1>6, <2>1, <2>2, RegisterAnsweredStep
<1>7. ASSUME NEW k \in Key, BatchAges(k) PROVE Seen
  <2>1. Issues!BatchAges(k)
    BY <1>7, SeenStill DEF Issues!BatchAges, BatchAges
  <2>. QED
    BY <2>1 DEF Issues!IssueNext
<1>8. ASSUME NEW k \in Key, Recover(k) PROVE Seen
  <2>1. Issues!Recover(k)
    BY <1>8, SeenStill
       DEF Issues!Recover, Recover, Issues!Recovered, Recovered
  <2>. QED
    BY <2>1 DEF Issues!IssueNext
<1>. QED
  BY <1>1, <1>2, <1>3, <1>4, <1>5, <1>6, <1>7, <1>8 DEF Background

LEMMA SeenNext ==
  ASSUME IInv, [Next]_vars
  PROVE  [Issues!IssueNext]_(Issues!issueVars)
<1>1. Unseen => UNCHANGED Issues!issueVars
  BY DEF Unseen, Issues!issueVars, Issues!requests, RP, PL
<1>2. CASE Next
  BY <1>1, <1>2, SeenAsked, SeenCarried, SeenBackground DEF Next, Seen
<1>3. CASE UNCHANGED vars
  <2>1. Unseen
    BY <1>3, UnseenStill DEF vars, issueVars
  <2>. QED
    BY <1>1, <2>1
<1>. QED
  BY <1>2, <1>3

LEMMA SeenInit == Init => Issues!IssueInit
<1>. SUFFICES ASSUME Init PROVE Issues!IssueInit
  OBVIOUS
<1>1. \A e \in Exec : ~Issuing(e)
  BY DEF Init, IssueInit, Issuing
<1>2. RP = [e \in Exec |-> "idle"] /\ PL = [e \in Exec |-> NoPlan]
  BY <1>1 DEF RP, PL
<1>. QED
  BY <1>2 DEF Init, IssueInit, Issues!IssueInit, RP, PL

\* Whatever continueReplacement, the channel write and the registration do,
\* what carrier-invoice-issue-service.ts sees of it is what CarrierIssue says:
\* its steps, those that it counts on, or nothing.
THEOREM IssuesAsSpecifiedAlways == Spec => IssuesAsSpecified
<1>1. Init => Issues!IssueInit
  BY SeenInit
<1>2. IInv /\ [Next]_vars => [Issues!IssueNext]_(Issues!issueVars)
  BY SeenNext
<1>. QED
  BY <1>1, <1>2, ReplacementInductive, PTL
     DEF Spec, IssuesAsSpecified, Issues!IssueSpec

-----------------------------------------------------------------------------
(* The current invoice.                                                      *)

Forward ==
  /\ current' # current /\ current # None =>
       /\ revision'[current'] > revision[current]
       /\ invoice'[current] = "REPLACED"
  /\ \A s \in Key : invoice[s] = "REPLACED" => invoice'[s] = "REPLACED"

LEMMA SwitchForward ==
  ASSUME IInv, NEW k \in Work, SwitchesTo(k)
  PROVE  Forward
<1>. USE DEF SwitchesTo
<1>1. current \in Key
  BY DEF IInv, IssueInv, CurrentInv, Existing
<1>2. /\ invoice'[current] = "REPLACED"
      /\ \A s \in Key : invoice'[s] \in {invoice[s], "REPLACED"}
  BY <1>1 DEF IInv, IssueInv, Types, BatchTypes
<1>. QED
  BY <1>2 DEF Forward

LEMMA StoreForward ==
  ASSUME IInv, NEW e \in Exec, Store(e)
  PROVE  Forward
<1>1. CASE UNCHANGED <<shipments, current>>
  BY <1>1 DEF Forward
<1>2. CASE MayStore(e) /\ Persists(e)
  <2>1. PICK k \in Key : k = plan[e].key
    BY DEF IInv, IssueInv, Types, RequestTypes
  <2>2. invoice[k] = None
    BY <1>2, <2>1 DEF MayStore, Attempting, IInv, IssueInv, StoredAsGiven
  <2>3. k = Initial => current = None
    BY <1>2, <2>1, WorkerKnows DEF Store, Working, Expects, Persists, Unchanged
  <2>4. /\ invoice' = [invoice EXCEPT ![k] = "ALLOCATED"]
        /\ current' = IF k = Initial THEN k ELSE current
    BY <1>2, <2>1 DEF Store, Allocates
  <2>5. \A s \in Key : s # k => invoice'[s] = invoice[s]
    BY <2>1, <2>4 DEF IInv, IssueInv, Types, BatchTypes
  <2>. QED
    BY <2>2, <2>3, <2>4, <2>5 DEF Forward
<1>. QED
  BY <1>1, <1>2 DEF Store

LEMMA NextForward ==
  ASSUME IInv, [Next]_vars
  PROVE  Forward
<1>1. CASE UNCHANGED <<shipments, current>>
  BY <1>1 DEF Forward
<1>2. ASSUME NEW e \in Exec, Asked(e) PROVE UNCHANGED <<shipments, current>>
  BY <1>2 DEF Asked, IssueFirst, Prepare, Replay, IssuedFirst, Start,
     ClaimConfirm, Resume, ClaimCancel, Confirm, ConfirmFails, Resumed, Cancel
<1>3. ASSUME NEW e \in Exec, Carried(e) PROVE Forward
  <2>1. CASE Finalize(e)
    BY <1>1, <2>1, FinalizeStep, SwitchForward DEF Finalize
  <2>2. CASE Issue(e)
    BY <1>1, <2>2, StoreForward
       DEF Issue, MarkDispatched, DispatchFails, Call, StoreFails
  <2>3. CASE \/ Continue(e) \/ Allocate(e) \/ Allocated(e) \/ Review(e)
             \/ Submit(e) \/ Write(e) \/ Called(e) \/ FinalizeFails(e)
             \/ Dies(e)
    BY <1>1, <2>3 DEF Continue, Allocate, Prepare, Replay, Allocated, Review,
       Submit, Write, Called, FinalizeFails, Dies
  <2>. QED
    BY <1>3, <2>1, <2>2, <2>3 DEF Carried
<1>4. CASE Background
  <2>1. ASSUME NEW k \in Work, ReviewWrite(k) PROVE Forward
    BY <1>1, <2>1, ReviewWriteStep, SwitchForward DEF ReviewWrite
  <2>2. ASSUME NEW s \in Key, RegisterAnswered(s) PROVE Forward
    <3>1. current' = current /\ \/ UNCHANGED invoice
                                \/ /\ current = s
                                   /\ invoice[s] # "REPLACED"
                                   /\ invoice' = [invoice EXCEPT ![s] = "REGISTERED"]
      BY <2>2, RegisterAnsweredStep DEF RegisterAnswered
    <3>2. \A t \in Key : invoice[t] = "REPLACED" => invoice'[t] = "REPLACED"
      BY <3>1 DEF IInv, IssueInv, Types, BatchTypes
    <3>. QED
      BY <3>1, <3>2 DEF Forward
  <2>3. ASSUME \/ Ready
               \/ \E k \in Work : TokenAges(k) \/ RecoverWrite(k) \/ Project(k)
               \/ \E s \in Key : RegisterSubmit(s) \/ RegisterAgain(s)
                                   \/ PrintLabel(s)
               \/ \E k \in Key : BatchAges(k) \/ Recover(k)
        PROVE  Forward
    BY <1>1, <2>3 DEF Ready, TokenAges, RecoverWrite, Project,
       RegisterSubmit, RegisterAgain, PrintLabel, BatchAges, Recover, issueVars
  <2>. QED
    BY <1>4, <2>1, <2>2, <2>3 DEF Background
<1>5. CASE UNCHANGED vars
  BY <1>1, <1>5 DEF vars, issueVars
<1>. QED
  BY <1>1, <1>2, <1>3, <1>4, <1>5 DEF Next

\* finalizePersistedCoupangInvoiceUpdate goes to a later revision only, and
\* an invoice that it replaced stays replaced.
THEOREM CurrentMovesForwardAlways == Spec => CurrentMovesForward
<1>1. IInv /\ [Next]_vars =>
        [/\ current' # current /\ current # None =>
              /\ revision'[current'] > revision[current]
              /\ invoice'[current] = "REPLACED"
         /\ \A s \in Key : invoice[s] = "REPLACED" => invoice'[s] = "REPLACED"
        ]_vars
  BY NextForward DEF Forward
<1>. QED
  BY <1>1, ReplacementInductive, PTL DEF Spec, CurrentMovesForward

=============================================================================
