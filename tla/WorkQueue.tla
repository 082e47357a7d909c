----------------------------- MODULE WorkQueue -----------------------------
(***************************************************************************)
(* The deduplicating work queue the controller reads pod keys from         *)
(* (k8s.io/client-go/util/workqueue, vendored): `queue` is the order in    *)
(* which keys are handed out, `dirty` the keys that need processing,       *)
(* `processing` the keys a worker holds.  A key added while it is being    *)
(* processed waits in `dirty` and is queued again by Done.                 *)
(***************************************************************************)
EXTENDS Sequences

QueueOf(K) == [queue : Seq(K), dirty : SUBSET K, processing : SUBSET K]

QAdd(q, k) ==
  IF k \in q.dirty THEN q
  ELSE [q EXCEPT !.dirty = @ \union {k},
                 !.queue = IF k \in q.processing THEN @ ELSE Append(@, k)]

QGet(q) ==
  [queue      |-> Tail(q.queue),
   dirty      |-> q.dirty \ {Head(q.queue)},
   processing |-> q.processing \union {Head(q.queue)}]

\* mutant: a key added while it is processed is not queued again
QDone_Drops(q, k) == [q EXCEPT !.processing = @ \ {k}, !.dirty = @ \ {k}]

QDone(q, k) ==
  [q EXCEPT !.processing = @ \ {k},
            !.queue = IF k \in q.dirty THEN Append(@, k) ELSE @]
=============================================================================
