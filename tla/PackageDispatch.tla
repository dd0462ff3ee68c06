--------------------------- MODULE PackageDispatch ---------------------------
(***************************************************************************)
(* The dispatch of an approved package (p0-application.ts, campaign-       *)
(* package-execution.ts, p0.ts): a document with one item per execution,   *)
(* saved by compare-and-swap, and requests that work on it.  A dispatch    *)
(* runs the items one after another, each as a worker of DirectExecution;  *)
(* a poll asks for the moderation of one item.  Any request may be cut off *)
(* between two steps, and its document and its journal survive.            *)
(***************************************************************************)
EXTENDS DirectExecution

CONSTANTS
  Documents,        \* packages of one advertiser account
  Instances,        \* the plans and faults of the behaviours, chosen in Init
  ExclusiveDispatch \* no two requests dispatch one document at the same time

\* an execution_id is a hash over the package, the gate and the position of its item
ASSUME PlanAssumption ==
  /\ None \notin Documents
  /\ \A i \in Instances :
       /\ i.plan \in [Documents -> Seq(Executions)] /\ i.faults \subseteq FaultKinds
       /\ \A c, d \in Documents : \A m \in DOMAIN i.plan[c], n \in DOMAIN i.plan[d] :
            i.plan[c][m] = i.plan[d][n] => c = d /\ m = n
  /\ ExclusiveDispatch \in BOOLEAN

VARIABLES
  begun,    \* documents with a package_execution
  items,    \* the package items as stored in the documents
  request,  \* one request per worker
  plan      \* the executions of each document, in dispatch order

chosenVars == <<faults, plan>>
vars == <<directVars, begun, items, request, chosenVars>>

Active == {"QUEUED", "DISPATCHING"}
Pollable == {"MODERATION_PENDING", "OUTCOME_UNKNOWN"}
ItemStatuses ==
  Active \cup Pollable \cup {"DIRECT_ACCEPTED", "REJECTED_NEEDS_EDIT",
    "PROVIDER_REJECTED", "SYSTEM_FAILED", "RECONCILIATION_REQUIRED"}

Item == [status : ItemStatuses, campaign : BOOLEAN, suspended : BOOLEAN,
         containment : Containments \cup {"CONFIRMED_SUSPENDED"}]

Request == [pc : {"idle", "begin", "head", "preflight", "insert", "run", "poll", "observe"},
            doc : Documents \cup {None}, item : Executions \cup {None}, current : BOOLEAN]

NoRequest == [pc |-> "idle", doc |-> None, item |-> None, current |-> FALSE]
Queued == [status |-> "QUEUED", campaign |-> FALSE, suspended |-> FALSE,
           containment |-> None]

\* what an item, a row, the lock, a worker and a request start from
ASSUME StartAssumption ==
  /\ Queued \in Item /\ BlankRecord \in DirectExecutionRecord /\ Free \in AccountLock
  /\ Idle \in Worker /\ NoRequest \in Request

ItemsOf(d) == {plan[d][i] : i \in DOMAIN plan[d]}

Init ==
  /\ DirectInit
  /\ begun = {}
  /\ items = [e \in Executions |-> Queued]
  /\ request = [w \in Workers |-> NoRequest]
  /\ \E i \in Instances : faults = i.faults /\ plan = i.plan

-----------------------------------------------------------------------------
(* The document.                                                           *)

\* mutant: an ad that is not rejected counts as accepted
RecordedEarly(item, o) ==
  [status |-> IF o.status = "RECONCILIATION_REQUIRED" \/ o.containment \in Unresolved
                THEN "RECONCILIATION_REQUIRED"
              ELSE IF o.status \in {"OUTCOME_UNKNOWN", "SYSTEM_FAILED"} THEN o.status
              ELSE IF o.ad = "REJECTED" THEN "REJECTED_NEEDS_EDIT"
              ELSE "DIRECT_ACCEPTED",
   campaign |-> item.campaign \/ o.campaign,
   suspended |-> item.suspended \/ o.ad # None,
   containment |-> item.containment]

\* normalizedOutcomeStatus, in the order of its tests
RecordedStatus(o, campaign, suspended) ==
  IF o.status = "RECONCILIATION_REQUIRED" \/ o.containment \in Unresolved
    THEN "RECONCILIATION_REQUIRED"
  ELSE IF o.status \in {"OUTCOME_UNKNOWN", "SYSTEM_FAILED"} THEN o.status
  ELSE IF o.ad = "ACCEPTED" THEN "DIRECT_ACCEPTED"
  ELSE IF o.ad = "REJECTED" THEN "REJECTED_NEEDS_EDIT"
  ELSE IF o.ad = "MODERATION" THEN "MODERATION_PENDING"
  ELSE IF o.ad = "DRAFT" THEN "OUTCOME_UNKNOWN"
  ELSE IF campaign /\ ~suspended THEN "SYSTEM_FAILED"
  ELSE "PROVIDER_REJECTED"

\* recordPackageItemOutcome
Recorded(item, o) ==
  LET campaign == item.campaign \/ o.campaign
      suspended == item.suspended \/ o.ad # None
  IN [status |-> RecordedStatus(o, campaign, suspended),
      campaign |-> campaign,
      suspended |-> suspended,
      containment |-> IF suspended THEN "CONFIRMED_SUSPENDED"
                      ELSE IF o.containment = None THEN item.containment
                      ELSE o.containment]

\* packageExecutionBlocksFollowingItems
Blocks(d) ==
  \E e \in ItemsOf(d) :
    \/ items[e].status = "RECONCILIATION_REQUIRED"
    \/ items[e].campaign /\ ~items[e].suspended

ActiveItems(d) == {e \in ItemsOf(d) : items[e].status \in Active}

NextItem(d) == plan[d][CHOOSE i \in DOMAIN plan[d] :
                         /\ plan[d][i] \in ActiveItems(d)
                         /\ \A j \in 1..(i - 1) : plan[d][j] \notin ActiveItems(d)]

\* the compare-and-swap of request w puts a newer revision under every other request
Checkpoint(w, next) ==
  /\ request[w].current
  /\ request' = [v \in Workers |->
       IF v = w THEN next
       ELSE IF request[v].doc = request[w].doc THEN [request[v] EXCEPT !.current = FALSE]
       ELSE request[v]]

\* the loser of a compare-and-swap answers P0_REVISION_CONFLICT
Conflict(w) ==
  /\ ~request[w].current
  /\ request' = [request EXCEPT ![w] = NoRequest]
  /\ UNCHANGED <<begun, items>>

At(w, point) == [request[w] EXCEPT !.pc = point]
Ended(w) == request[w].pc = "idle"

-----------------------------------------------------------------------------
(* dispatch_package.                                                       *)

Dispatch(w, d) ==
  /\ Ended(w) /\ plan[d] # <<>>
  /\ d \notin begun \/ ActiveItems(d) # {}
  /\ ExclusiveDispatch =>
       \A v \in Workers : request[v].doc = d => request[v].pc \in {"poll", "observe"}
  /\ request' = [request EXCEPT ![w] =
       [pc |-> IF d \in begun THEN "head" ELSE "begin",
        doc |-> d, item |-> None, current |-> TRUE]]
  /\ UNCHANGED <<directVars, begun, items>>

InitializePackageExecution(w) ==
  /\ request[w].pc = "begin"
  /\ \/ /\ Checkpoint(w, At(w, "head"))
        /\ begun' = begun \cup {request[w].doc}
        /\ UNCHANGED items
     \/ Conflict(w)
  /\ UNCHANGED directVars

\* the head of the loop: begin the next item, or stop and save the document
BeginPackageItemDispatch(w) ==
  LET d == request[w].doc
      stop == ActiveItems(d) = {} \/ Blocks(d)
  IN /\ request[w].pc = "head"
     /\ \/ /\ stop
           /\ Checkpoint(w, NoRequest)
           /\ UNCHANGED items
        \/ /\ ~stop
           /\ Checkpoint(w, [At(w, "preflight") EXCEPT !.item = NextItem(d)])
           /\ items' = [items EXCEPT ![NextItem(d)].status = "DISPATCHING"]
        \/ Conflict(w)
     /\ UNCHANGED <<directVars, begun>>

\* a worker that is done before it began
Done(e, outcome) ==
  [Idle EXCEPT !.pc = "answered", !.item = e, !.outcome = outcome]
Started(e) == [Idle EXCEPT !.pc = "acquire", !.item = e]

DuplicateName == [Exception EXCEPT !.containment = "NOT_CREATED"]

\* createPackageItemOutcome: the reads before the row is known
Preflight(w) ==
  LET e == request[w].item
  IN /\ request[w].pc = "preflight"
     /\ \/ /\ rows[e].status # "ABSENT"
           /\ Become(w, Started(e)) /\ request' = [request EXCEPT ![w] = At(w, "run")]
        \/ /\ rows[e].status = "ABSENT"
           /\ request' = [request EXCEPT ![w] = At(w, "insert")]
           /\ UNCHANGED worker
        \/ /\ "preflight" \in faults
           /\ \/ Become(w, Done(e, Exception))
              \/ rows[e].status = "ABSENT" /\ Become(w, Done(e, DuplicateName))
           /\ request' = [request EXCEPT ![w] = At(w, "run")]
     /\ UNCHANGED <<rows, lock, account, begun, items>>

\* beginExecution, whose insert fails on a row that another request made
BeginExecution(w) ==
  LET e == request[w].item
  IN /\ request[w].pc = "insert"
     /\ \/ /\ rows[e].status = "ABSENT"
           /\ rows' = [rows EXCEPT ![e] = BlankRecord]
           /\ Become(w, Started(e))
        \/ /\ rows[e].status # "ABSENT" \/ "journal" \in faults
           /\ Become(w, Done(e, Exception))
           /\ UNCHANGED rows
     /\ request' = [request EXCEPT ![w] = At(w, "run")]
     /\ UNCHANGED <<lock, account, begun, items>>

RunItem(w) ==
  /\ request[w].pc = "run"
  /\ WorkerStep(w)
  /\ UNCHANGED <<begun, items, request>>

\* the outcome is saved, or lost with the revision
RecordPackageItemOutcome(w) ==
  LET e == request[w].item
  IN /\ request[w].pc = "run" /\ worker[w].pc = "answered"
     /\ \/ /\ Checkpoint(w, [At(w, "head") EXCEPT !.item = None])
           /\ items' = [items EXCEPT ![e] = Recorded(@, worker[w].outcome)]
           /\ UNCHANGED begun
        \/ Conflict(w)
     /\ Become(w, Idle)
     /\ UNCHANGED <<rows, lock, account>>

-----------------------------------------------------------------------------
(* poll_package_moderation.                                                *)

Poll(w, d, e) ==
  /\ Ended(w)
  /\ d \in begun /\ e \in ItemsOf(d) /\ items[e].status \in Pollable
  /\ request' = [request EXCEPT ![w] =
       [pc |-> "poll", doc |-> d, item |-> e, current |-> TRUE]]
  /\ UNCHANGED <<directVars, begun, items>>

\* the attempt and the next due time are saved before the provider is asked
BeginPackageItemModerationPoll(w) ==
  /\ request[w].pc = "poll"
  /\ \/ Checkpoint(w, At(w, "observe")) /\ UNCHANGED <<begun, items>>
     \/ Conflict(w)
  /\ UNCHANGED directVars

Polled(e, status) == [status |-> status, campaign |-> TRUE,
                      containment |-> items[e].containment, ad |-> None]

\* what pollPackageItemOutcome answers: one read of the graph that is not repeated
Observations(e) ==
  (IF GraphVerified(e)
     THEN {[Polled(e, CompletedStatus(account[e].ad)) EXCEPT !.ad = account[e].ad]}
     ELSE {Polled(e, "SYSTEM_FAILED")})
    \cup (IF "read" \in faults
            THEN {Polled(e, "OUTCOME_UNKNOWN"), Polled(e, "SYSTEM_FAILED")} ELSE {})

RecordModerationPoll(w) ==
  LET e == request[w].item
  IN /\ request[w].pc = "observe"
     /\ \/ \E o \in Observations(e) :
             /\ Checkpoint(w, NoRequest)
             /\ items' = [items EXCEPT ![e] = Recorded(@, o)]
             /\ UNCHANGED begun
        \/ Conflict(w)
     /\ UNCHANGED directVars

-----------------------------------------------------------------------------
\* a request ends wherever it stands
Crash(w) ==
  /\ "crash" \in faults
  /\ ~Ended(w)
  /\ request' = [request EXCEPT ![w] = NoRequest]
  /\ Become(w, Idle)
  /\ UNCHANGED <<rows, lock, account, begun, items>>

Environment ==
  /\ LeaseExpires \/ \E e \in Executions : Moderated(e)
  /\ UNCHANGED <<begun, items, request>>

Step(w) ==
  \/ InitializePackageExecution(w) \/ BeginPackageItemDispatch(w)
  \/ Preflight(w) \/ BeginExecution(w) \/ RunItem(w) \/ RecordPackageItemOutcome(w)
  \/ BeginPackageItemModerationPoll(w) \/ RecordModerationPoll(w)

Next ==
  /\ \/ \E w \in Workers : Step(w) \/ Crash(w)
     \/ \E w \in Workers, d \in Documents :
          Dispatch(w, d) \/ \E e \in Executions : Poll(w, d, e)
     \/ Environment
  /\ UNCHANGED chosenVars

Spec == Init /\ [][Next]_vars

-----------------------------------------------------------------------------
(* Properties.                                                             *)

\* Whatever is lost, repeated or cut off, an execution never makes a second object of
\* a kind: an add whose outcome is unknown is not sent again.
AtMostOneAdd == \A e \in Executions : \A op \in Adds : account[e].count[op] <= 1

Written(e) == account'[e] # account[e] /\ account'[e].ad \notin {"ACCEPTED", "REJECTED"}

\* The provider is written only for the execution that has the account lock, after its
\* intent was saved, and while no other execution waits for an outcome it does not know.
AccountBoundary ==
  [][\A e \in Executions : Written(e) =>
       /\ lock.holder = e
       /\ rows[e].pending # None
       /\ \A f \in Executions \ {e} : rows[f].pending = None]_vars

\* with a failing journal the exceptions of its own saves become outcomes
JournalWritable == "journal" \notin faults

Settled == {"DIRECT_ACCEPTED", "REJECTED_NEEDS_EDIT", "PROVIDER_REJECTED", "SYSTEM_FAILED"}

\* As long as the journal can be written, an item with a settled status has left
\* nothing that serves and nothing undecided.
SettledIsSafe ==
  JournalWritable => \A e \in Executions : items[e].status \in Settled =>
    account[e].state # "ON" /\ rows[e].pending = None

\* What the document says of the moderation is true of the provider.
OutcomesAreTrue ==
  \A e \in Executions :
    /\ items[e].status \in {"MODERATION_PENDING", "DIRECT_ACCEPTED", "REJECTED_NEEDS_EDIT"}
         => GraphVerified(e)
    /\ items[e].status = "MODERATION_PENDING" => account[e].ad # "DRAFT"
    /\ items[e].status = "DIRECT_ACCEPTED" => account[e].ad = "ACCEPTED"
    /\ items[e].status = "REJECTED_NEEDS_EDIT" => account[e].ad = "REJECTED"

\* As long as the journal can be written, an item that waits for a reconciliation, and
\* whose execution was not rejected, holds the account against all others.
AmbiguityIsLocked ==
  JournalWritable => \A e \in Executions :
    items[e].status = "RECONCILIATION_REQUIRED" /\ rows[e].status # "PROVIDER_REJECTED" =>
      lock = [holder |-> e, held |-> TRUE]

=============================================================================
