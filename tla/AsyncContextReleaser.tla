------------------------ MODULE AsyncContextReleaser ------------------------
(***************************************************************************)
(* An AsyncObjectWrap owns a Napi::AsyncContext, which must not be freed   *)
(* during the garbage collection that runs its destructor.  The destructor *)
(* hands it to the AsyncContextReleaser, and the Deferrer beneath has      *)
(* libuv call Execute on the JavaScript thread in a later turn, by way of  *)
(* one napi_async_work that it uses again and again.                       *)
(*                                                                         *)
(* Destructors and Execute run on the JavaScript thread, never one inside  *)
(* the other, so each is one action; the work passes through libuv's       *)
(* thread pool in between.  _work_mutex is used as a flag: the work has    *)
(* been queued and has not completed.                                      *)
(***************************************************************************)
EXTENDS Naturals, Sequences

CONSTANT Contexts   \* the async contexts, one for each wrapped object

VARIABLES
  contexts,    \* _contexts: released, not yet deleted
  work_mutex,  \* _work_mutex is taken
  work,        \* the napi_async_work: "idle", "queued" or "done"
  state,       \* each context: "live", "released" or "deleted"
  misused      \* history: a work that was not idle has been queued, or a
               \* context that was not released has been deleted

releaserVars == <<contexts, work_mutex, work, state, misused>>

ReleaserInit ==
  /\ contexts = <<>>
  /\ work_mutex = FALSE
  /\ work = "idle"
  /\ state = [c \in Contexts |-> "live"]
  /\ misused = FALSE

(* Fault: the work is queued although it may be queued already.            *)
QueueAlways ==
  /\ work_mutex' = TRUE
  /\ work' = "queued"
  /\ misused' = (misused \/ work # "idle")

(* try_lock, and only the one who gets it queues the work.                 *)
Queue ==
  IF work_mutex
  THEN UNCHANGED <<work_mutex, work, misused>>
  ELSE /\ work_mutex' = TRUE
       /\ work' = "queued"
       /\ misused' = (misused \/ work # "idle")

(* ~AsyncObjectWrap: the object is collected once, with its context.       *)
Release(c) ==
  /\ state[c] = "live"
  /\ state' = [state EXCEPT ![c] = "released"]
  /\ contexts' = Append(contexts, c)
  /\ Queue

(* A thread of libuv's pool runs the work, which does nothing.             *)
DoNothing ==
  /\ work = "queued"
  /\ work' = "done"
  /\ UNCHANGED <<contexts, work_mutex, state, misused>>

Delete(cs) ==
  /\ state' = [c \in Contexts |-> IF c \in cs THEN "deleted" ELSE state[c]]
  /\ misused' = (misused \/ \E c \in cs : state[c] # "released")

Elements(s) == {s[i] : i \in DOMAIN s}

(* Fault: one context is deleted for each work.                            *)
ExecuteOne ==
  /\ contexts' = Tail(contexts)
  /\ Delete({Head(contexts)})

(* Fault: the contexts are deleted and stay in the queue.                  *)
ExecuteKeep ==
  /\ UNCHANGED contexts
  /\ Delete(Elements(contexts))

(* Everything that waits is deleted, whichever Release queued the work.    *)
Execute ==
  /\ contexts' = <<>>
  /\ Delete(Elements(contexts))

(* Fault: the flag is never cleared.                                       *)
CallExecuteLocked ==
  /\ work = "done"
  /\ work' = "idle"
  /\ UNCHANGED work_mutex
  /\ Execute

(* libuv has let go of the work when it calls the completion callback.     *)
CallExecute ==
  /\ work = "done"
  /\ work' = "idle"
  /\ work_mutex' = FALSE
  /\ Execute

ReleaserNext ==
  \/ \E c \in Contexts : Release(c)
  \/ DoNothing
  \/ CallExecute

(* libuv runs the work it has been given and completes it.                 *)
ReleaserSafeSpec == ReleaserInit /\ [][ReleaserNext]_releaserVars
ReleaserSpec == ReleaserSafeSpec /\ WF_releaserVars(DoNothing) /\ WF_releaserVars(CallExecute)

----------------------------------------------------------------------------

ReleaserTypeOK ==
  /\ contexts \in Seq(Contexts)
  /\ work_mutex \in BOOLEAN
  /\ work \in {"idle", "queued", "done"}
  /\ state \in [Contexts -> {"live", "released", "deleted"}]
  /\ misused \in BOOLEAN

(* No release is lost: while a context waits, the work that will delete it *)
(* is under way, although not every Release queues it.                     *)
NoLostRelease == contexts # <<>> => work # "idle"

(* Every released context waits in the queue, and nothing else does.       *)
QueueFaithful == \A c \in Contexts :
  state[c] = "released" <=> \E i \in DOMAIN contexts : contexts[i] = c

(* The rules of N-API: a queued work is not queued again, and no context   *)
(* is deleted twice.                                                       *)
WellUsed == ~misused

(* A collected object's context is deleted in the end.                     *)
AllDeleted == \A c \in Contexts : state[c] = "released" ~> state[c] = "deleted"
============================================================================
