-------------------------- MODULE DirectManagement --------------------------
(***************************************************************************)
(* The typed Yandex Direct boundary (direct_management.py): which method   *)
(* of which service a connector invokes from which object state, what the  *)
(* fake account does with it, and how a dispatch is resolved afterwards.   *)
(* An account is a function from the objects a run may create to their     *)
(* states; the content of an object is abstracted to whether it still      *)
(* equals the plan.                                                        *)
(***************************************************************************)
EXTENDS Integers, SequencesExt

CONSTANT NoOp   \* the absence of an injected fault

Services == {"Campaigns", "AdGroups", "Ads", "Keywords"}

\* The objects of one campaign plan; ADS_ADD creates the two ads of its group.
Objects == {"campaign", "group", "ad1", "ad2", "keyword"}
ServiceOf == [campaign |-> "Campaigns", group |-> "AdGroups", ad1 |-> "Ads",
              ad2 |-> "Ads", keyword |-> "Keywords"]

DirectState == {"GONE", "DRAFT", "MODERATION", "ON", "SUSPENDED", "ARCHIVED"}
AnyState == DirectState \ {"GONE"}

\* The states from which each typed method goes through; a service without an
\* entry for a method has no such method.
RequiredStates ==
  [Campaigns |-> [suspend |-> {"ON"}, resume |-> {"SUSPENDED"},
                  archive |-> {"SUSPENDED"}, unarchive |-> {"ARCHIVED"},
                  delete |-> {"SUSPENDED", "ARCHIVED"}],
   AdGroups |-> [delete |-> AnyState],
   Ads |-> [suspend |-> {"ON"}, resume |-> {"SUSPENDED", "MODERATION"},
            archive |-> {"SUSPENDED"}, unarchive |-> {"ARCHIVED"},
            moderate |-> {"DRAFT"},
            delete |-> {"DRAFT", "MODERATION", "SUSPENDED", "ARCHIVED"}],
   Keywords |-> [suspend |-> {"ON"}, resume |-> {"SUSPENDED"},
                 delete |-> {"SUSPENDED"}]]

\* The state an object starts in, and the one each method leaves it in.
AddedState == [Campaigns |-> "SUSPENDED", AdGroups |-> "ON", Ads |-> "DRAFT",
               Keywords |-> "SUSPENDED"]
Reaches == [suspend |-> "SUSPENDED", resume |-> "ON", archive |-> "ARCHIVED",
            unarchive |-> "SUSPENDED", moderate |-> "MODERATION", delete |-> "GONE"]

Permitted(account, o, method) ==
  /\ method \in DOMAIN RequiredStates[ServiceOf[o]]
  /\ account[o] \in RequiredStates[ServiceOf[o]][method]

\* The objects of a list an invocation reaches: a transition goes from one to the
\* next and fails at the first that is not there.
Transitions == DOMAIN Reaches \ {"delete"}
Reached(account, objects, method) ==
  {objects[i] : i \in {i \in DOMAIN objects :
     method \in Transitions => \A j \in 1..i : account[objects[j]] # "GONE"}}
Missing(account, objects, method) ==
  Reached(account, objects, method) # Range(objects)

\* What one invocation does: an ADD creates every object of its service, any
\* other method moves the objects it names.
Invoked(account, objects, method) ==
  [o \in Objects |->
     IF o \notin objects THEN account[o]
     ELSE IF method = "add" THEN AddedState[ServiceOf[o]] ELSE Reaches[method]]

\* The constructor arguments of a fake adapter: whether it can be asked for the
\* outcome of an operation key, the operation it fails, the deletion it fails,
\* the operation after which it times out, and the service whose objects come
\* back with an unexpected type.
FakeAdapter == [reconciles : BOOLEAN, production : BOOLEAN,
                failOn : (Services \X STRING) \cup {NoOp},
                failDelete : Services \cup {NoOp},
                timeoutAfter : (Services \X STRING) \cup {NoOp},
                mistypes : Services \cup {NoOp}]

Fails(adapter, service, method) ==
  \/ adapter.failOn = <<service, method>>
  \/ method = "delete" /\ adapter.failDelete = service
TimesOut(adapter, service, method) == adapter.timeoutAfter = <<service, method>>
=============================================================================
